---- MODULE Spec2Model ----
(***************************************************************************)
(* MicroPod host-side VM lifecycle: the VM controller (pkg/manager), the   *)
(* JSON VM registry (pkg/state), the network provisioner (pkg/network)     *)
(* and the Firecracker driver, as far as the controller drives them.       *)
(*                                                                         *)
(* RunVM is modelled statement by statement (one action per call it makes, *)
(* one action per rollback statement); ListVMs and StopVM are one action   *)
(* each.  Every external call that the code checks for an error has its    *)
(* outcome drawn nondeterministically; a call that fails has no effect.    *)
(*                                                                         *)
(* Spec     the current controller, pkg/manager/manager.go                 *)
(* SpecCow  the copy-on-write controller, unnamed/part_002                 *)
(* SpecStore the registry alone, called with arbitrary arguments           *)
(* SpecFile  the registry file under the Stores of several processes       *)
(* SpecNames the paths and device names derived from the VM ids            *)
(* SpecCowSvc the copy-on-write rootfs service, pkg/rootfs over pkg/cow    *)
(* SpecUnpack the extraction of the layers of an image, pkg/image          *)
(* SpecImage the image store, pkg/image: pull, lookup, delete              *)
(* SpecImagePar two pulls and unpacks of pkg/image, statement by statement *)
(* SpecPorts parsePortMappings of pkg/network                              *)
(* SpecHash hashVMID of pkg/network                                        *)
(* SpecNet  Setup and Teardown of pkg/network on the host tables           *)
(* SpecLogs the logs command (SpecLogsFair: the command keeps running)     *)
(* SpecLaunch the HTTP Firecracker client: LaunchVM and Stop               *)
(* SpecBuild the configuration the two Firecracker clients boot with       *)
(* SpecDial connectToAgent of pkg/manager: the retry loop                  *)
(* SpecNetFaults Setup of pkg/network when one of its commands fails       *)
(* SpecExtract extractLayer of pkg/image on a tree with symbolic links     *)
(* SpecPublish RunVM with the publish list network.Setup parses            *)
(* SpecAgent CreateContainer of cmd/agent under concurrent requests        *)
(***************************************************************************)
EXTENDS Integers, Sequences, FiniteSets, TLC

\* Bound: number of ids uuid.New() mints (RunVM calls) in one behaviour.
MaxVMs == 2

\* Bound: number of failing calls inside StopVM, ListVMs and the rollback
\* statements of RunVM in one behaviour (the steps of RunVM itself fail
\* without limit).
MaxFaults == 1

IDs == 1..MaxVMs

Refs == {"alpine"}

VARIABLES
    registry,   \* vms.json: the sequence of VM records loadVMs decodes
    procs,      \* pids of the live Firecracker processes
    taps,       \* ids whose tap-<id[:8]> device exists
    rules,      \* ids with an iptables nat rule (MASQUERADE or DNAT)
    dirs,       \* ids whose /tmp/micropod-rootfs-<id> directory exists
    socks,      \* ids whose /tmp/firecracker-<id[:8]>.sock file exists
    vsocks,     \* ids whose /tmp/micropod-vsock-<id> file exists
    snaps,      \* ids whose micropod-vm-<id> snapshot mapping exists
    images,     \* image refs with a layout in the image store
    run,        \* the RunVM call in flight: its position and locals
    nextId,     \* number of ids minted so far
    hist,       \* per id: the RunVM steps that succeeded (history)
    committed,  \* ids for which RunVM returned the id (history)
    stopped,    \* ids for which StopVM returned nil (history)
    faults,     \* number of failed cleanup calls so far (see MaxFaults)
    last,       \* the last StopVM / ListVMs / Store call and its result
    file,       \* vms.json as the file system holds it (SpecFile)
    store,      \* per process: the Store method in flight (SpecFile)
    fhist,      \* what the Store methods have returned so far (history)
    recs,       \* the registry with the paths of each record (SpecNames)
    nlive,      \* ids of the records of recs whose process is alive
    dmBase,     \* device-mapper: the micropod-base-<ref> mappings
    dmSnap,     \* device-mapper: the micropod-vm-<id> snapshot mappings
    loops,      \* the attached loop devices and their backing files
    cowfiles,   \* ids whose <cowDir>/<id>.cow file exists
    svc,        \* per process: the tables of its CowService
    unpack,     \* Unpack: where its loop over the layers is
    ulog,       \* Unpack: the tar headers read so far, with their layer
    dest,       \* Unpack: the paths that exist under destPath
    layouts,    \* image store: the OCI layout directory of each path
    remote,     \* the registry: the digest each reference resolves to
    stored,     \* refs pulled with success and not deleted since
    pulls,      \* per process: where its PullImage or Unpack is
    links,      \* network: the tap devices of the host
    nat,        \* network: the rules of the iptables nat table, in order
    defiface,   \* network: the interface of the default route, if any
    logs,       \* logs command: where it is and how far it has read
    logfile,    \* logs command: number of lines of the log file of the VM
    logrec,     \* logs command: whether the registry has the VM's record
    fc,         \* driver: the launch in flight, its process and its socket
    dial,       \* connectToAgent: the attempt, the connections, the waits
    tree,       \* extractLayer: the file system, by real path
    written,    \* extractLayer: the real paths created or written so far
    agent,      \* guest agent: its table, the containers and the bundles
    areqs       \* guest agent: per request, where CreateContainer is

\* The variables of SpecFile and of SpecNames.
fvars == <<file, store, fhist>>

nvars == <<recs, nlive>>

\* The variables of SpecCowSvc.
cvars == <<dmBase, dmSnap, loops, cowfiles, svc>>

\* The variables of SpecUnpack.
uvars == <<unpack, ulog, dest>>

\* The variables of SpecImage and of SpecImagePar.
ivars == <<layouts, remote, stored, pulls>>

\* The variables of SpecNet.
tvars == <<links, nat, defiface>>

\* The variables of SpecLogs.
gvars == <<logs, logfile, logrec>>

\* The variables of SpecLaunch, SpecDial, SpecExtract and SpecAgent.
wvars == <<fc, dial, tree, written, agent, areqs>>

\* The variables of the specifications that come after SpecImage.
yvars == <<tvars, gvars, wvars>>

\* The variables of the specifications that come after SpecUnpack.
zvars == <<ivars, yvars>>

\* The variables of the specifications that do not run the controller.
xvars == <<fvars, nvars, cvars, uvars, zvars>>

vars == <<registry, procs, taps, rules, dirs, socks, vsocks, snaps, images, run,
          nextId, hist, committed, stopped, faults, last, xvars>>

\* The variables of the controller and of the registry as a sequence.
mvars == <<registry, procs, taps, rules, dirs, socks, vsocks, snaps, images,
           run, nextId, hist, committed, stopped, faults>>

\* The variables of the specifications up to SpecLogs, without last.
ovars == <<mvars, fvars, nvars, cvars, uvars, ivars, tvars, gvars>>

----------------------------------------------------------------------------
(* Records and small helpers                                               *)

\* The OS gives every launched Firecracker its own pid; the launch of the
\* VM with the k-th minted id is given pid k.
GetPID(id) == id

VM(id, image) ==
    [id |-> id, image |-> image, state |-> "Running", pid |-> GetPID(id)]

\* A finished call: its operation and argument, whether it returned nil,
\* its error, the records it returned, the registry it started from, the
\* steps it tried and the steps that reported an error.
Call(op, id, ok, err, result, pre, tried, errs) ==
    [op |-> op, id |-> id, ok |-> ok, err |-> err, result |-> result,
     pre |-> pre, tried |-> tried, errs |-> errs]

NoCall == Call("none", 0, TRUE, "none", <<>>, <<>>, {}, {})

IdleRun == [pc |-> "idle", id |-> 0, image |-> "none",
            err |-> "none", undo |-> <<>>, undoFailed |-> FALSE]

RunSteps == {"Setup", "Pull", "Unpack", "Launch", "Connect", "Create"}

Ids(vms) == {vms[i].id : i \in 1..Len(vms)}

isProcessRunning(pid, live) == pid > 0 /\ pid \in live

----------------------------------------------------------------------------
(* pkg/state: Store over the registry file                                 *)

AddVM(vms, vm) == Append(vms, vm)

HasVM(vms, id) == \E i \in 1..Len(vms) : vms[i].id = id

GetVM(vms, id) ==
    LET i == CHOOSE k \in 1..Len(vms) :
                 vms[k].id = id /\ \A j \in 1..(k - 1) : vms[j].id # id
    IN vms[i]

RemoveVM(vms, id) == SelectSeq(vms, LAMBDA vm : vm.id # id)

UpdateVMState(vms, id, state) ==
    LET i == CHOOSE k \in 1..Len(vms) :
                 vms[k].id = id /\ \A j \in 1..(k - 1) : vms[j].id # id
    IN [vms EXCEPT ![i].state = state]

----------------------------------------------------------------------------
(* pkg/network: Teardown                                                   *)

\* Outcome of one Teardown call: "ok"; "iface" (getDefaultInterface fails,
\* cleanupIptables returns and the tap is not touched); "tapdel" (rules
\* deleted, "ip link delete" fails).
NetOutcomes == {"ok", "iface", "tapdel"}

TeardownRules(out, id, rs) == IF out = "iface" THEN rs ELSE rs \ {id}

TeardownTaps(out, id, ts) == IF out = "ok" THEN ts \ {id} ELSE ts

TeardownErr(out) == out # "ok"

----------------------------------------------------------------------------
(* The registry file and the processes that open it, part_001:277-414      *)

\* Bound: number of processes (each with its own Store and its own mutex)
\* that call Store methods at the same time.
MaxProcs == 2

Procs == 1..MaxProcs

\* The bytes of vms.json: none ("empty", as GetStateFilePath creates it and
\* as O_TRUNC leaves it), a whole JSON document of the records vms ("doc"),
\* or the beginning of one ("partial").
Doc(vms) == [kind |-> "doc", vms |-> vms]

EmptyFile == [kind |-> "empty", vms |-> <<>>]

PartialFile == [kind |-> "partial", vms |-> <<>>]

IdleStore == [pc |-> "idle", op |-> "none", id |-> 0, new |-> <<>>]

FileInit ==
    /\ file = EmptyFile
    /\ store = [p \in Procs |-> IdleStore]
    /\ fhist = [minted |-> 0, added |-> {}, removed |-> {}, updated |-> {},
                prev |-> <<>>, crashed |-> FALSE]

----------------------------------------------------------------------------
\* Image references, in pieces: the separators "/" and ":" are pieces of
\* their own, as getLayoutPath looks for them.
ImgRefs == {<<"alpine", ":", "edge">>, <<"alpine", "_", "edge">>,
            <<"busybox">>}

\* strings.ReplaceAll(ref, "/", "_") and (ref, ":", "_").
getLayoutPath(refString) ==
    [i \in 1..Len(refString) |->
        IF refString[i] \in {"/", ":"} THEN "_" ELSE refString[i]]

LayoutPaths == {getLayoutPath(ref) : ref \in ImgRefs}

\* A layout path with no directory; a directory holds the list of the
\* manifests of its index.json.
NoLayout == [exists |-> FALSE, index |-> <<>>]

IdlePull == [pc |-> "idle", ref |-> <<>>, digest |-> "none"]

\* NewClient: no process, no request sent; the socket file is absent.
IdleClient ==
    [pc |-> "idle", reqs |-> <<>>, process |-> "nil", sock |-> FALSE,
     net |-> FALSE]

\* connectToAgent before its first attempt.
IdleDial ==
    [pc |-> "idle", attempt |-> 0, open |-> {}, state |-> "Idle",
     waits |-> 0, cancelled |-> FALSE]

\* The file system before Unpack: destPath and a directory beside it.
EmptyTree == {[path |-> <<"dest">>, kind |-> "dir", link |-> <<>>],
              [path |-> <<"etc">>, kind |-> "dir", link |-> <<>>]}

\* newAgentServer: an empty table; no container, no bundle directory.
NewAgentServer == [containers |-> {}, runc |-> {}, bundles |-> {}]

\* A request of the agent that has not come in: no response yet.
IdleRequest == [pc |-> "idle", id |-> "", seen |-> FALSE, status |-> "none"]

Init ==
    /\ registry = <<>>
    /\ procs = {}
    /\ taps = {}
    /\ rules = {}
    /\ dirs = {}
    /\ socks = {}
    /\ vsocks = {}
    /\ snaps = {}
    /\ images = {}
    /\ run = IdleRun
    /\ nextId = 0
    /\ hist = [i \in IDs |-> {}]
    /\ committed = {}
    /\ stopped = {}
    /\ faults = 0
    /\ last = NoCall
    /\ FileInit
    /\ recs = <<>>
    /\ nlive = {}
    /\ dmBase = {}
    /\ dmSnap = {}
    /\ loops = {}
    /\ cowfiles = {}
    /\ svc = [p \in Procs |-> [baseDevices |-> {}, snapshots |-> {}]]
    /\ unpack = [pc |-> "idle", layer |-> 0, read |-> 0]
    /\ ulog = <<>>
    /\ dest = {}
    /\ layouts = [path \in LayoutPaths |-> NoLayout]
    /\ remote = [ref \in ImgRefs |-> "d1"]
    /\ stored = {}
    /\ pulls = [p \in Procs |-> IdlePull]
    /\ links = {}
    /\ nat = <<>>
    /\ defiface = "eth0"
    /\ logs = [pc |-> "idle", pos |-> 0, slept |-> FALSE]
    /\ logfile = 0
    /\ logrec = FALSE
    /\ fc = IdleClient
    /\ dial = IdleDial
    /\ tree = EmptyTree
    /\ written = {}
    /\ agent = NewAgentServer
    /\ areqs = [p \in Procs |-> IdleRequest]

----------------------------------------------------------------------------
(* Manager.RunVM, manager.go:71-215                                        *)

RunFail(err, undo) ==
    [run EXCEPT !.pc = "rollback", !.err = err, !.undo = undo]

\* Where network.Setup stops: "parse" parsePortMappings; "tuntap" the first
\* command of createTapDevice; "addr" a later command of createTapDevice
\* (the tap stays); "sysctl" ip_forward, default interface or MASQUERADE
\* (the tap is deleted); "dnat" a DNAT rule (the tap is deleted, the
\* MASQUERADE rule stays); "ok".
SetupOutcomes == {"parse", "tuntap", "addr", "sysctl", "dnat", "ok"}

\* uuid.New(), then network.Setup(vmID, portMappings): lines 75-84.
RunVM_Setup(image, out) ==
    /\ run.pc \in {"idle", "returned", "fatal"}
    /\ nextId < MaxVMs
    /\ LET id == nextId + 1 IN
       /\ nextId' = id
       /\ taps' = IF out \in {"addr", "ok"} THEN taps \cup {id} ELSE taps
       /\ rules' = IF out \in {"dnat", "ok"} THEN rules \cup {id} ELSE rules
       /\ hist' = [i \in IDs |->
                     IF i = id THEN (IF out = "ok" THEN {"Setup"} ELSE {})
                     ELSE IF i \in Ids(registry) THEN hist[i] ELSE {}]
       /\ run' = IF out = "ok"
                 THEN [IdleRun EXCEPT !.pc = "Pull", !.id = id,
                                      !.image = image]
                 ELSE [IdleRun EXCEPT !.pc = "returned", !.id = id,
                                      !.image = image,
                                      !.err = "NetworkError"]
    /\ last' = NoCall
    /\ UNCHANGED <<registry, procs, dirs, socks, vsocks, snaps, images,
                   committed, stopped, faults, xvars>>

\* imageService.PullImage: lines 86-91.
RunVM_Pull(ok) ==
    /\ run.pc = "Pull"
    /\ (run.image \in images => ok)
    /\ IF ok
       THEN /\ images' = images \cup {run.image}
            /\ hist' = [hist EXCEPT ![run.id] = @ \cup {"Pull"}]
            /\ run' = [run EXCEPT !.pc = "Unpack"]
       ELSE /\ run' = RunFail("ImageError", <<"Teardown">>)
            /\ UNCHANGED <<images, hist>>
    /\ last' = NoCall
    /\ UNCHANGED <<registry, procs, taps, rules, dirs, socks, vsocks, snaps,
                   nextId, committed, stopped, faults, xvars>>

\* imageService.Unpack into /tmp/micropod-rootfs-<id>: lines 93-99.
\* "getimage" fails before MkdirAll, "extract" after it.
RunVM_Unpack(out) ==
    /\ run.pc = "Unpack"
    /\ out \in {"getimage", "extract", "ok"}
    /\ dirs' = IF out = "getimage" THEN dirs ELSE dirs \cup {run.id}
    /\ IF out = "ok"
       THEN /\ hist' = [hist EXCEPT ![run.id] = @ \cup {"Unpack"}]
            /\ run' = [run EXCEPT !.pc = "Launch"]
       ELSE /\ run' = RunFail("RootfsError", <<"Teardown">>)
            /\ UNCHANGED hist
    /\ last' = NoCall
    /\ UNCHANGED <<registry, procs, taps, rules, socks, vsocks, snaps, images,
                   nextId, committed, stopped, faults, xvars>>

\* GetKernelPath .. client.LaunchVM: lines 101-148.
\* "nokernel": GetKernelPath calls log.Fatalf and the process exits.
\* "prestart": LaunchVM fails before the process is spawned.
\* "startdead" / "startalive": machine.Start fails after the spawn; whether
\* the SDK has reaped the process is not decided by this repository.
LaunchOutcomes == {"nokernel", "prestart", "startdead", "startalive", "ok"}

RunVM_Launch(out) ==
    /\ run.pc = "Launch"
    /\ out \in LaunchOutcomes
    /\ procs' = IF out \in {"startalive", "ok"}
                THEN procs \cup {GetPID(run.id)} ELSE procs
    /\ socks' = IF out \in {"startdead", "startalive", "ok"}
                THEN socks \cup {run.id} ELSE socks
    /\ vsocks' = IF out = "ok" THEN vsocks \cup {run.id} ELSE vsocks
    /\ CASE out = "ok" ->
              /\ hist' = [hist EXCEPT ![run.id] = @ \cup {"Launch"}]
              /\ run' = [run EXCEPT !.pc = "Connect"]
         [] out = "nokernel" ->
              /\ run' = [run EXCEPT !.pc = "fatal", !.err = "Fatal"]
              /\ UNCHANGED hist
         [] OTHER ->
              /\ run' = RunFail("LaunchError", <<"Teardown", "RemoveAll">>)
              /\ UNCHANGED hist
    /\ last' = NoCall
    /\ UNCHANGED <<registry, taps, rules, dirs, snaps, images, nextId,
                   committed, stopped, faults, xvars>>

\* connectToAgent: lines 150-157.  ok is FALSE when all maxRetries attempts
\* failed (ctx is context.Background(), never cancelled).
RunVM_Connect(ok) ==
    /\ run.pc = "Connect"
    /\ IF ok
       THEN /\ hist' = [hist EXCEPT ![run.id] = @ \cup {"Connect"}]
            /\ run' = [run EXCEPT !.pc = "Create"]
       ELSE /\ run' = RunFail("AgentUnreachable", <<"Teardown", "RemoveAll">>)
            /\ UNCHANGED hist
    /\ last' = NoCall
    /\ UNCHANGED <<registry, procs, taps, rules, dirs, socks, vsocks, snaps,
                   images, nextId, committed, stopped, faults, xvars>>

\* RunVM_Create without the test of resp.Status: any answer of the agent
\* counts as a started container.
RunVM_CreateAnyStatus(out) ==
    /\ run.pc = "Create"
    /\ out \in {"rpcerr", "FAILED", "RUNNING"}
    /\ IF out # "rpcerr"
       THEN /\ hist' = [hist EXCEPT ![run.id] =
                            IF out = "RUNNING" THEN @ \cup {"Create"} ELSE @]
            /\ run' = [run EXCEPT !.pc = "Commit"]
       ELSE /\ run' = RunFail("ContainerStartFailed",
                              <<"Teardown", "RemoveAll">>)
            /\ UNCHANGED hist
    /\ last' = NoCall
    /\ UNCHANGED <<registry, procs, taps, rules, dirs, socks, vsocks, snaps,
                   images, nextId, committed, stopped, faults, xvars>>

\* agentClient.CreateContainer and the status test: lines 161-182.
RunVM_Create(out) ==
    /\ run.pc = "Create"
    /\ out \in {"rpcerr", "FAILED", "RUNNING"}
    /\ IF out = "RUNNING"
       THEN /\ hist' = [hist EXCEPT ![run.id] = @ \cup {"Create"}]
            /\ run' = [run EXCEPT !.pc = "Commit"]
       ELSE /\ run' = RunFail("ContainerStartFailed",
                              <<"Teardown", "RemoveAll">>)
            /\ UNCHANGED hist
    /\ last' = NoCall
    /\ UNCHANGED <<registry, procs, taps, rules, dirs, socks, vsocks, snaps,
                   images, nextId, committed, stopped, faults, xvars>>

\* RunVM_Commit that returns the id without having called store.AddVM.
RunVM_CommitNoAddVM(ok) ==
    /\ run.pc = "Commit"
    /\ ok
    /\ run' = [run EXCEPT !.pc = "returned"]
    /\ committed' = committed \cup {run.id}
    /\ last' = NoCall
    /\ UNCHANGED <<registry, procs, taps, rules, dirs, socks, vsocks, snaps,
                   images, nextId, hist, stopped, faults, xvars>>

\* store.AddVM(vm): lines 184-215.
RunVM_Commit(ok) ==
    /\ run.pc = "Commit"
    /\ IF ok
       THEN /\ registry' = AddVM(registry, VM(run.id, run.image))
            /\ run' = [run EXCEPT !.pc = "returned"]
            /\ committed' = committed \cup {run.id}
       ELSE /\ run' = RunFail("StoreError", <<"Stop", "Teardown", "RemoveAll">>)
            /\ UNCHANGED <<registry, committed>>
    /\ last' = NoCall
    /\ UNCHANGED <<procs, taps, rules, dirs, socks, vsocks, snaps, images,
                   nextId, hist, stopped, faults, xvars>>

\* One compensating statement of the failing branch, in the order the
\* branch writes them; none of their results is looked at.
RunVM_Rollback(out) ==
    /\ run.pc = "rollback"
    /\ LET stmt == Head(run.undo)
           rest == Tail(run.undo)
           failed == out # "ok"
       IN
       /\ out \in (IF stmt = "Teardown" THEN NetOutcomes ELSE {"ok", "fail"})
       /\ failed => faults < MaxFaults
       /\ faults' = IF failed THEN faults + 1 ELSE faults
       /\ taps' = IF stmt = "Teardown"
                  THEN TeardownTaps(out, run.id, taps) ELSE taps
       /\ rules' = IF stmt = "Teardown"
                   THEN TeardownRules(out, run.id, rules) ELSE rules
       /\ dirs' = IF stmt = "RemoveAll" /\ out = "ok"
                  THEN dirs \ {run.id} ELSE dirs
       /\ procs' = IF stmt = "Stop" /\ out = "ok"
                   THEN procs \ {GetPID(run.id)} ELSE procs
       /\ run' = [run EXCEPT !.undo = rest,
                             !.undoFailed = @ \/ failed,
                             !.pc = IF rest = <<>> THEN "returned"
                                    ELSE "rollback"]
    /\ last' = NoCall
    /\ UNCHANGED <<registry, socks, vsocks, snaps, images, nextId, hist,
                   committed, stopped, xvars>>

----------------------------------------------------------------------------
(* Manager.cleanup, cleanupDeadVM, StopVM, ListVMs: manager.go:217-333     *)

\* Outcomes of the external calls of one stop / reconciliation:
\*   load  store.GetVM / store.ListVMs could read and decode the file
\*   kill  killProcess delivered the signal
\*   net   outcome of network.Teardown
\*   sock  os.Remove(vm.VMSocketPath) succeeded (or the file was absent)
\*   dir   os.RemoveAll(vm.UnpackedPath) succeeded
\*   rec   store.RemoveVM could rewrite the file
AllFaults == [load : BOOLEAN, kill : BOOLEAN, net : NetOutcomes,
              sock : BOOLEAN, dir : BOOLEAN, rec : BOOLEAN]

NoFault == [load |-> TRUE, kill |-> TRUE, net |-> "ok",
            sock |-> TRUE, dir |-> TRUE, rec |-> TRUE]

FaultCount(f) ==
    (IF f.load THEN 0 ELSE 1) + (IF f.kill THEN 0 ELSE 1)
        + (IF f.net = "ok" THEN 0 ELSE 1) + (IF f.sock THEN 0 ELSE 1)
        + (IF f.dir THEN 0 ELSE 1) + (IF f.rec THEN 0 ELSE 1)

\* The fault profiles one call can meet.
Faults == {f \in AllFaults : FaultCount(f) <= MaxFaults}

\* The part of the host a stop or a reconciliation works on, with the log
\* of the steps it tried and of the steps that reported an error.
Host0 == [registry |-> registry, taps |-> taps, rules |-> rules,
          socks |-> socks, dirs |-> dirs, tried |-> {}, errs |-> {}]

Step(h, name, id, ok) ==
    [h EXCEPT !.tried = @ \cup {<<name, id>>},
              !.errs = IF ok THEN @ ELSE @ \cup {<<name, id>>}]

\* cleanup that returns at the first step reporting an error.
cleanupStopAtFirstError(h, vm, f) ==
    LET h1 == [Step(h, "Teardown", vm.id, ~TeardownErr(f.net)) EXCEPT
                   !.taps = TeardownTaps(f.net, vm.id, @),
                   !.rules = TeardownRules(f.net, vm.id, @)]
        h2 == [Step(h1, "RemoveSocket", vm.id, f.sock) EXCEPT
                   !.socks = IF f.sock THEN @ \ {vm.id} ELSE @]
        h3 == [Step(h2, "RemoveAll", vm.id, f.dir) EXCEPT
                   !.dirs = IF f.dir THEN @ \ {vm.id} ELSE @]
    IN IF TeardownErr(f.net) THEN h1 ELSE IF ~f.sock THEN h2 ELSE h3

cleanup(h, vm, f) ==
    LET h1 == [Step(h, "Teardown", vm.id, ~TeardownErr(f.net)) EXCEPT
                   !.taps = TeardownTaps(f.net, vm.id, @),
                   !.rules = TeardownRules(f.net, vm.id, @)]
        h2 == [Step(h1, "RemoveSocket", vm.id, f.sock) EXCEPT
                   !.socks = IF f.sock THEN @ \ {vm.id} ELSE @]
        h3 == [Step(h2, "RemoveAll", vm.id, f.dir) EXCEPT
                   !.dirs = IF f.dir THEN @ \ {vm.id} ELSE @]
    IN h3

\* cleanupDeadVM that releases the resources and keeps the record.
cleanupDeadVMKeepRecord(h, vm, f) == cleanup(h, vm, f)

cleanupDeadVM(h, vm, f) ==
    LET h1 == cleanup(h, vm, f)
        ok == f.rec /\ HasVM(h1.registry, vm.id)
    IN [Step(h1, "RemoveVM", vm.id, ok) EXCEPT
            !.registry = IF ok THEN RemoveVM(@, vm.id) ELSE @]

\* The loop of ListVMs over the loaded records vms, from index i on; the
\* VM v (if any) meets the faults f, the others none.
RECURSIVE Reconcile(_, _, _, _, _, _)
Reconcile(h, vms, i, live, v, f) ==
    IF i > Len(vms) THEN h
    ELSE IF isProcessRunning(vms[i].pid, live)
         THEN Reconcile(h, vms, i + 1, live, v, f)
         ELSE Reconcile(cleanupDeadVM(h, vms[i],
                                      IF vms[i].id = v THEN f ELSE NoFault),
                        vms, i + 1, live, v, f)

DeadIds == {registry[i].id : i \in
               {k \in 1..Len(registry) :
                    ~isProcessRunning(registry[k].pid, procs)}}

\* v = 0: no reconciliation step fails (f.load may).
ListVMs(v, f) ==
    /\ faults + FaultCount(f) <= MaxFaults
    /\ IF v = 0 THEN \A k \in {"kill", "sock", "dir", "rec"} : f[k]
                     /\ f.net = "ok"
       ELSE v \in DeadIds /\ f.load /\ f.kill /\ f # NoFault
    /\ faults' = faults + FaultCount(f)
    /\ IF ~f.load
       THEN /\ last' = Call("ListVMs", 0, FALSE, "LoadError", <<>>, <<>>,
                            {}, {})
            /\ UNCHANGED <<registry, taps, rules, socks, dirs>>
       ELSE LET vms == registry
                h == Reconcile(Host0, vms, 1, procs, v, f)
                runningVMs ==
                    SelectSeq(vms, LAMBDA vm : isProcessRunning(vm.pid, procs))
            IN /\ registry' = h.registry
               /\ taps' = h.taps
               /\ rules' = h.rules
               /\ socks' = h.socks
               /\ dirs' = h.dirs
               /\ last' = Call("ListVMs", 0, TRUE, "none", runningVMs,
                               vms, h.tried, h.errs)
    /\ UNCHANGED <<procs, vsocks, snaps, images, run, nextId, hist,
                   committed, stopped, xvars>>

StopVM(vmID, f) ==
    /\ faults + FaultCount(f) <= MaxFaults
    /\ faults' = faults + FaultCount(f)
    /\ IF ~f.load \/ ~HasVM(registry, vmID)
       THEN /\ f.kill /\ f.sock /\ f.dir /\ f.rec /\ f.net = "ok"
            /\ last' = Call("StopVM", vmID, FALSE,
                            IF f.load THEN "NotFound" ELSE "LoadError",
                            <<>>, registry, {}, {})
            /\ UNCHANGED <<registry, procs, taps, rules, socks, dirs, stopped>>
       ELSE LET vm == GetVM(registry, vmID)
                running == isProcessRunning(vm.pid, procs)
                h0 == IF running THEN Step(Host0, "kill", vmID, f.kill)
                      ELSE Host0
                h1 == cleanup(h0, vm, f)
                h == Step(h1, "RemoveVM", vmID, f.rec)
            IN /\ (~running => f.kill)
               /\ procs' = IF running /\ f.kill THEN procs \ {vm.pid}
                           ELSE procs
               /\ taps' = h.taps
               /\ rules' = h.rules
               /\ socks' = h.socks
               /\ dirs' = h.dirs
               /\ registry' = IF f.rec THEN RemoveVM(registry, vmID)
                              ELSE registry
               /\ stopped' = IF f.rec THEN stopped \cup {vmID} ELSE stopped
               /\ last' = Call("StopVM", vmID, f.rec,
                               IF f.rec THEN "none" ELSE "StoreError",
                               <<>>, registry, h.tried, h.errs)
    /\ UNCHANGED <<vsocks, snaps, images, run, nextId, hist, committed,
                   xvars>>

\* A Firecracker process ends by itself (guest shutdown, crash, kill -9).
ProcessExit(pid) ==
    /\ pid \in procs
    /\ procs' = procs \ {pid}
    /\ last' = NoCall
    /\ UNCHANGED <<registry, taps, rules, dirs, socks, vsocks, snaps, images,
                   run, nextId, hist, committed, stopped, faults, xvars>>

----------------------------------------------------------------------------
Next ==
    \/ \E image \in Refs, out \in SetupOutcomes : RunVM_Setup(image, out)
    \/ \E ok \in BOOLEAN : RunVM_Pull(ok)
    \/ \E out \in {"getimage", "extract", "ok"} : RunVM_Unpack(out)
    \/ \E out \in LaunchOutcomes : RunVM_Launch(out)
    \/ \E ok \in BOOLEAN : RunVM_Connect(ok)
    \/ \E out \in {"rpcerr", "FAILED", "RUNNING"} : RunVM_Create(out)
    \/ \E ok \in BOOLEAN : RunVM_Commit(ok)
    \/ \E out \in NetOutcomes \cup {"fail"} : RunVM_Rollback(out)
    \/ \E v \in {0} \cup IDs, f \in Faults : ListVMs(v, f)
    \/ \E vmID \in IDs, f \in Faults : StopVM(vmID, f)
    \/ \E pid \in procs : ProcessExit(pid)

Spec == Init /\ [][Next]_vars

----------------------------------------------------------------------------
(* The copy-on-write Manager: RunVM, ListVMs, StopVM, cleanup of            *)
(* unnamed/part_002, with Client.Stop of pkg/firecracker/client.go and      *)
(* CowService.RemoveRootFS of pkg/rootfs/cow_service.go                     *)

HostCow0 == [registry |-> registry, procs |-> procs, socks |-> socks,
             snaps |-> snaps, tried |-> {}, errs |-> {}]

\* Client.Stop of a client whose GetPID() is pid; pid = 0 is a client that
\* NewClient(socketPath) just built: its process field is nil, nothing is
\* killed, the socket file is removed and nil is returned.
Stop(h, pid, id, f) ==
    IF pid # 0 /\ ~f.kill
    THEN Step(h, "Stop", id, FALSE)
    ELSE [Step(h, "Stop", id, TRUE) EXCEPT
              !.procs = IF pid # 0 THEN @ \ {pid} ELSE @,
              !.socks = IF f.sock THEN @ \ {id} ELSE @]

fallbackKillProcess(h, vm, f) ==
    IF isProcessRunning(vm.pid, h.procs)
    THEN [Step(h, "kill", vm.id, f.kill) EXCEPT
              !.procs = IF f.kill THEN @ \ {vm.pid} ELSE @]
    ELSE h

\* RemoveRootFS in a process that did not create the snapshot takes the
\* cleanupOrphanedDevice path, which reports no error whatever happens.
cleanupCow(h, vm, f) ==
    LET h1 == [Step(h, "RemoveSocket", vm.id, f.sock) EXCEPT
                   !.socks = IF f.sock THEN @ \ {vm.id} ELSE @]
        h2 == [Step(h1, "RemoveRootFS", vm.id, TRUE) EXCEPT
                   !.snaps = IF f.dir THEN @ \ {vm.id} ELSE @]
    IN h2

cleanupDeadVMCow(h, vm, f) ==
    LET h1 == cleanupCow(h, vm, f)
        ok == f.rec /\ HasVM(h1.registry, vm.id)
    IN [Step(h1, "RemoveVM", vm.id, ok) EXCEPT
            !.registry = IF ok THEN RemoveVM(@, vm.id) ELSE @]

RECURSIVE ReconcileCow(_, _, _, _, _)
ReconcileCow(h, vms, i, v, f) ==
    IF i > Len(vms) THEN h
    ELSE IF isProcessRunning(vms[i].pid, h.procs)
         THEN ReconcileCow(h, vms, i + 1, v, f)
         ELSE ReconcileCow(cleanupDeadVMCow(h, vms[i],
                               IF vms[i].id = v THEN f ELSE NoFault),
                           vms, i + 1, v, f)

\* Where RunVM stops: "rootfs" CreateRootFS fails; "nokernel" GetKernelPath
\* exits the process, the snapshot stays; "launch" client.Launch fails and
\* the snapshot is removed; "store" AddVM fails, the client is stopped and
\* the snapshot removed; "ok".
RunCowOutcomes == {"rootfs", "nokernel", "launch", "store", "ok"}

RunVMCow(image, out) ==
    /\ nextId < MaxVMs
    /\ out \in RunCowOutcomes
    /\ LET id == nextId + 1
           vm == VM(id, image)
       IN
       /\ nextId' = id
       /\ snaps' = IF out \in {"nokernel", "ok"} THEN snaps \cup {id}
                   ELSE snaps
       /\ procs' = IF out = "ok" THEN procs \cup {vm.pid} ELSE procs
       /\ socks' = IF out = "ok" THEN socks \cup {id} ELSE socks
       /\ registry' = IF out = "ok" THEN AddVM(registry, vm) ELSE registry
       /\ committed' = IF out = "ok" THEN committed \cup {id} ELSE committed
       /\ last' = Call("RunVM", id, out = "ok",
                       IF out = "ok" THEN "none" ELSE out,
                       <<>>, registry, {}, {})
    /\ UNCHANGED <<taps, rules, dirs, vsocks, images, run, hist, stopped,
                   faults, xvars>>

ListVMsCow(v, f) ==
    /\ faults + FaultCount(f) <= MaxFaults
    /\ f.kill /\ f.net = "ok"
    /\ IF v = 0 THEN f.sock /\ f.dir /\ f.rec
       ELSE v \in DeadIds /\ f.load /\ f # NoFault
    /\ faults' = faults + FaultCount(f)
    /\ IF ~f.load
       THEN /\ last' = Call("ListVMs", 0, FALSE, "LoadError", <<>>, <<>>,
                            {}, {})
            /\ UNCHANGED <<registry, socks, snaps>>
       ELSE LET vms == registry
                h == ReconcileCow(HostCow0, vms, 1, v, f)
                runningVMs ==
                    SelectSeq(vms, LAMBDA vm : isProcessRunning(vm.pid, procs))
            IN /\ registry' = h.registry
               /\ socks' = h.socks
               /\ snaps' = h.snaps
               /\ last' = Call("ListVMs", 0, TRUE, "none", runningVMs,
                               vms, h.tried, h.errs)
    /\ UNCHANGED <<procs, taps, rules, dirs, vsocks, images, run, nextId,
                   hist, committed, stopped, xvars>>

StopVMCow(vmID, f) ==
    /\ faults + FaultCount(f) <= MaxFaults
    /\ f.net = "ok"
    /\ faults' = faults + FaultCount(f)
    /\ IF ~f.load \/ ~HasVM(registry, vmID)
       THEN /\ f.kill /\ f.sock /\ f.dir /\ f.rec
            /\ last' = Call("StopVM", vmID, FALSE,
                            IF f.load THEN "NotFound" ELSE "LoadError",
                            <<>>, registry, {}, {})
            /\ UNCHANGED <<registry, procs, socks, snaps, stopped>>
       ELSE LET vm == GetVM(registry, vmID)
                h0 == IF vmID \in socks
                      THEN Stop(HostCow0, 0, vmID, f)
                      ELSE fallbackKillProcess(HostCow0, vm, f)
                h1 == cleanupCow(h0, vm, f)
                h == Step(h1, "RemoveVM", vmID, f.rec)
            IN /\ (~f.kill => <<"kill", vmID>> \in h.tried)
               /\ procs' = h.procs
               /\ socks' = h.socks
               /\ snaps' = h.snaps
               /\ registry' = IF f.rec THEN RemoveVM(registry, vmID)
                              ELSE registry
               /\ stopped' = IF f.rec THEN stopped \cup {vmID} ELSE stopped
               /\ last' = Call("StopVM", vmID, f.rec,
                               IF f.rec THEN "none" ELSE "StoreError",
                               <<>>, registry, h.tried, h.errs)
    /\ UNCHANGED <<taps, rules, dirs, vsocks, images, run, nextId, hist,
                   committed, xvars>>

NextCow ==
    \/ \E image \in Refs, out \in RunCowOutcomes : RunVMCow(image, out)
    \/ \E v \in {0} \cup IDs, f \in Faults : ListVMsCow(v, f)
    \/ \E vmID \in IDs, f \in Faults : StopVMCow(vmID, f)
    \/ \E pid \in procs : ProcessExit(pid)

SpecCow == Init /\ [][NextCow]_vars

----------------------------------------------------------------------------
(* The Store alone: AddVM, GetVM, RemoveVM, ListVMs, UpdateVMState called   *)
(* with arbitrary arguments, unnamed/part_001:285-385                       *)

\* Bound: number of records in vms.json.
MaxLen == 3

States == {"Running", "Stopped"}

StoreVMs == {[VM(id, image) EXCEPT !.state = st] :
                 id \in IDs, image \in Refs, st \in States}

\* ok is FALSE when loadVMs or saveVMs fails; the file is then as it was.
StoreAddVM(vm, ok) ==
    /\ Len(registry) < MaxLen
    /\ registry' = IF ok THEN AddVM(registry, vm) ELSE registry
    /\ last' = Call("Store.AddVM", vm.id, ok,
                    IF ok THEN "none" ELSE "StoreError",
                    <<vm>>, registry, {}, {})
    /\ UNCHANGED <<procs, taps, rules, dirs, socks, vsocks, snaps, images,
                   run, nextId, hist, committed, stopped, faults, xvars>>

StoreGetVM(id, ok) ==
    /\ last' = IF ~ok
               THEN Call("Store.GetVM", id, FALSE, "StoreError", <<>>,
                         registry, {}, {})
               ELSE IF HasVM(registry, id)
               THEN Call("Store.GetVM", id, TRUE, "none",
                         <<GetVM(registry, id)>>, registry, {}, {})
               ELSE Call("Store.GetVM", id, FALSE, "NotFound", <<>>,
                         registry, {}, {})
    /\ UNCHANGED <<registry, procs, taps, rules, dirs, socks, vsocks, snaps,
                   images, run, nextId, hist, committed, stopped, faults,
                   xvars>>

\* StoreRemoveVM without the test of found: the filtered list is saved and
\* nil is returned whether or not a record had the id.
StoreRemoveVMNoFoundTest(id, ok) ==
    /\ registry' = IF ok THEN RemoveVM(registry, id) ELSE registry
    /\ last' = Call("Store.RemoveVM", id, ok,
                    IF ok THEN "none" ELSE "StoreError",
                    <<>>, registry, {}, {})
    /\ UNCHANGED <<procs, taps, rules, dirs, socks, vsocks, snaps, images,
                   run, nextId, hist, committed, stopped, faults, xvars>>

StoreRemoveVM(id, ok) ==
    /\ LET found == HasVM(registry, id) IN
       /\ registry' = IF ok /\ found THEN RemoveVM(registry, id)
                      ELSE registry
       /\ last' = Call("Store.RemoveVM", id, ok /\ found,
                       IF ok /\ found THEN "none"
                       ELSE IF ok THEN "NotFound" ELSE "StoreError",
                       <<>>, registry, {}, {})
    /\ UNCHANGED <<procs, taps, rules, dirs, socks, vsocks, snaps, images,
                   run, nextId, hist, committed, stopped, faults, xvars>>

StoreListVMs(ok) ==
    /\ last' = Call("Store.ListVMs", 0, ok,
                    IF ok THEN "none" ELSE "StoreError",
                    IF ok THEN registry ELSE <<>>, registry, {}, {})
    /\ UNCHANGED <<registry, procs, taps, rules, dirs, socks, vsocks, snaps,
                   images, run, nextId, hist, committed, stopped, faults,
                   xvars>>

StoreUpdateVMState(id, state, ok) ==
    /\ LET found == HasVM(registry, id) IN
       /\ registry' = IF ok /\ found THEN UpdateVMState(registry, id, state)
                      ELSE registry
       /\ last' = Call("Store.UpdateVMState", id, ok /\ found,
                       IF ok /\ found THEN "none"
                       ELSE IF ok THEN "NotFound" ELSE "StoreError",
                       <<>>, registry, {}, {})
    /\ UNCHANGED <<procs, taps, rules, dirs, socks, vsocks, snaps, images,
                   run, nextId, hist, committed, stopped, faults, xvars>>

NextStore ==
    \/ \E vm \in StoreVMs, ok \in BOOLEAN : StoreAddVM(vm, ok)
    \/ \E id \in IDs, ok \in BOOLEAN : StoreGetVM(id, ok)
    \/ \E id \in IDs, ok \in BOOLEAN : StoreRemoveVM(id, ok)
    \/ \E ok \in BOOLEAN : StoreListVMs(ok)
    \/ \E id \in IDs, st \in States, ok \in BOOLEAN :
           StoreUpdateVMState(id, st, ok)

SpecStore == Init /\ [][NextStore]_vars

----------------------------------------------------------------------------
(* Properties                                                               *)

Live(vms) == SelectSeq(vms, LAMBDA vm : isProcessRunning(vm.pid, procs))

\* The ids the last ListVMs found dead.
Reaped == Ids(last.pre) \ Ids(last.result)

CleanupSteps == {"Teardown", "RemoveSocket", "RemoveAll", "RemoveVM"}

RunReturnedError == run.pc = "returned" /\ run.err # "none"

\* The error RunVM returns when the steps hs succeeded and the next failed.
StepErr(hs) ==
    CASE "Setup" \notin hs -> "NetworkError"
      [] "Pull" \notin hs -> "ImageError"
      [] "Unpack" \notin hs -> "RootfsError"
      [] "Launch" \notin hs -> "LaunchError"
      [] "Connect" \notin hs -> "AgentUnreachable"
      [] "Create" \notin hs -> "ContainerStartFailed"
      [] OTHER -> "StoreError"

\* C1: when RunVM has returned an error after its launch step succeeded,
\* the Firecracker process it launched is not running and the registry holds
\* no record with the id it minted.
C1_FailedRunLeavesNoProcess ==
    (RunReturnedError /\ "Launch" \in hist[run.id])
        => (GetPID(run.id) \notin procs /\ ~HasVM(registry, run.id))

\* C2: when RunVM fails at a step, the tap, the NAT rules and the unpacked
\* rootfs acquired by the steps before it are released before it returns,
\* the rootfs before the network, and the error is the failing step's.
C2_RollbackInReverseOrder ==
    LET id == run.id IN
    /\ (RunReturnedError /\ ~run.undoFailed /\ "Setup" \in hist[id])
          => /\ id \notin taps
             /\ id \notin rules
             /\ ("Unpack" \in hist[id] => id \notin dirs)
             /\ run.err = StepErr(hist[id])
    /\ (run.pc = "rollback" /\ ~run.undoFailed /\ "Unpack" \in hist[id]
            /\ id \in dirs)
          => (id \in taps /\ id \in rules)

\* C3: a record with state Running is in the registry only if Setup, Pull,
\* Unpack, Launch, Connect and Create (answer RUNNING) all succeeded for its
\* id, and once the record is there the RunVM that wrote it has returned
\* without error: the commit is its last step.
C3_RunningRecordIsFullyStarted ==
    \A i \in 1..Len(registry) :
        registry[i].state = "Running" =>
            /\ RunSteps \subseteq hist[registry[i].id]
            /\ (registry[i].id = run.id
                    => (run.pc = "returned" /\ run.err = "none"))

C3_Witness ==
    \E i \in 1..Len(registry) :
        /\ registry[i].state = "Running"
        /\ registry[i].id = run.id
        /\ run.pc = "returned"

C6_StopEndsProcess ==
    (last.op = "StopVM" /\ last.ok /\ last.errs = {})
        => GetPID(last.id) \notin procs

\* C7: after StopVM(id) has returned nil (here: with none of its steps
\* reporting an error), nothing of the VM is left: no tap, no NAT rule, no
\* rootfs directory, no vsock socket, no API socket and no record.
C7_StopReleasesEverything ==
    (last.op = "StopVM" /\ last.ok /\ last.errs = {}) =>
        /\ last.id \notin taps
        /\ last.id \notin rules
        /\ last.id \notin dirs
        /\ last.id \notin vsocks
        /\ last.id \notin socks
        /\ ~HasVM(registry, last.id)

\* C8: StopVM on a recorded VM, and ListVMs on every dead record, try the
\* network teardown, the socket removal, the rootfs removal and the record
\* deletion whichever of them (or the kill) fails, and the record stays
\* only when the registry write itself failed.
C8_CleanupStepsAreIndependent ==
    /\ (last.op = "StopVM" /\ last.err \notin {"NotFound", "LoadError"}) =>
          /\ \A st \in CleanupSteps : <<st, last.id>> \in last.tried
          /\ (HasVM(registry, last.id)
                  <=> <<"RemoveVM", last.id>> \in last.errs)
          /\ (last.ok <=> <<"RemoveVM", last.id>> \notin last.errs)
    /\ (last.op = "ListVMs" /\ last.ok) =>
          \A id \in Reaped :
              /\ \A st \in CleanupSteps : <<st, id>> \in last.tried
              /\ (HasVM(registry, id) <=> <<"RemoveVM", id>> \in last.errs)

C8_Witness ==
    /\ last.op = "StopVM"
    /\ last.ok
    /\ last.errs # {}
    /\ ~HasVM(registry, last.id)

\* C9: a StopVM(id) on a VM an earlier StopVM has stopped, whose record is
\* gone, returns nil and leaves the registry as it was.
C9_RepeatedStopSucceeds ==
    (last.op = "StopVM" /\ last.id \in stopped /\ last.err # "LoadError"
         /\ ~HasVM(last.pre, last.id))
        => (last.ok /\ registry = last.pre)

\* C10: after AddVM(v), GetVM(v.id) returns v; after RemoveVM(id), GetVM(id)
\* is NotFound; RemoveVM of an absent id fails with NotFound; neither
\* changes another record or the order of the others.
C10_StoreRoundTrip ==
    LET others(vms) == SelectSeq(vms, LAMBDA vm : vm.id # last.id) IN
    /\ (last.op = "Store.AddVM" /\ last.ok) =>
          /\ HasVM(registry, last.id)
          /\ GetVM(registry, last.id) = last.result[1]
          /\ others(registry) = others(last.pre)
    /\ (last.op = "Store.RemoveVM" /\ last.ok) =>
          /\ ~HasVM(registry, last.id)
          /\ others(registry) = others(last.pre)
    /\ (last.op = "Store.RemoveVM" /\ ~HasVM(last.pre, last.id)
            /\ last.err # "StoreError")
          => (~last.ok /\ last.err = "NotFound" /\ registry = last.pre)

\* C11: AddVM(v) is rejected when a record with v.id is in the registry, and
\* no two records of the registry share an id.
C11_IdsAreUnique ==
    /\ (last.op = "Store.AddVM" /\ HasVM(last.pre, last.id)) => ~last.ok
    /\ \A i, j \in 1..Len(registry) :
           i # j => registry[i].id # registry[j].id

\* C12: GetVM, RemoveVM and UpdateVMState called with an id no record has
\* (the file being readable) return the not-found error and leave the
\* registry as it was.
C12_AbsentIdIsNotFound ==
    (last.op \in {"Store.GetVM", "Store.RemoveVM", "Store.UpdateVMState"}
         /\ ~HasVM(last.pre, last.id) /\ last.err # "StoreError")
        => (~last.ok /\ last.err = "NotFound" /\ registry = last.pre)

C12_Witness ==
    /\ last.op = "Store.RemoveVM"
    /\ last.err = "NotFound"
    /\ registry # <<>>
    /\ ~HasVM(registry, last.id)

----------------------------------------------------------------------------
(* The Store of several processes on one file: loadVMs, saveVMs and the     *)
(* methods built on them, part_001:285-414.  s.mutex belongs to the Store   *)
(* value NewManager builds, so it orders the methods of one process only.   *)

\* loadVMs: ReadFile, and Unmarshal unless the file has no bytes.
loadVMs(f) ==
    IF f.kind = "partial" THEN [ok |-> FALSE, vms |-> <<>>]
    ELSE [ok |-> TRUE, vms |-> f.vms]

FileOps == {"AddVM", "RemoveVM", "UpdateVMState"}

\* The first half of AddVM / RemoveVM / UpdateVMState in process p: Lock,
\* loadVMs and the new list in memory.  AddVM is called with a new id.
StoreLoad(p, op, id) ==
    /\ store[p].pc = "idle"
    /\ op \in FileOps
    /\ IF op = "AddVM" THEN id = fhist.minted + 1 /\ id \in IDs
       ELSE id \in 1..fhist.minted
    /\ LET l == loadVMs(file)
           found == l.ok /\ HasVM(l.vms, id)
           new == CASE op = "AddVM" -> AddVM(l.vms, VM(id, "alpine"))
                    [] op = "RemoveVM" -> RemoveVM(l.vms, id)
                    [] OTHER -> IF found
                                THEN UpdateVMState(l.vms, id, "Stopped")
                                ELSE l.vms
       IN store' = [store EXCEPT ![p] =
                       IF l.ok /\ (op = "AddVM" \/ found)
                       THEN [pc |-> "loaded", op |-> op, id |-> id,
                             new |-> new]
                       ELSE IdleStore]
    /\ fhist' = [fhist EXCEPT !.minted = IF op = "AddVM" THEN id ELSE @]
    /\ last' = NoCall
    /\ UNCHANGED <<file, mvars, nvars, cvars, uvars, zvars>>

\* saveVMs, os.WriteFile opening the file with O_TRUNC.
StoreTruncate(p) ==
    /\ store[p].pc = "loaded"
    /\ file' = EmptyFile
    /\ store' = [store EXCEPT ![p].pc = "truncated"]
    /\ last' = NoCall
    /\ UNCHANGED <<fhist, mvars, nvars, cvars, uvars, zvars>>

\* saveVMs, os.WriteFile writing the document: all of it, or (all = FALSE) a
\* first part of it.  When all is written the method unlocks and returns.
StoreWrite(p, all) ==
    /\ store[p].pc \in {"truncated", "partial"}
    /\ all \/ store[p].pc = "truncated"
    /\ IF all
       THEN /\ file' = Doc(store[p].new)
            /\ store' = [store EXCEPT ![p] = IdleStore]
            /\ fhist' = [fhist EXCEPT
                 !.prev = store[p].new,
                 !.added = IF store[p].op = "AddVM"
                           THEN @ \cup {store[p].id} ELSE @,
                 !.removed = IF store[p].op = "RemoveVM"
                             THEN @ \cup {store[p].id} ELSE @,
                 !.updated = IF store[p].op = "UpdateVMState"
                             THEN @ \cup {store[p].id} ELSE @]
       ELSE /\ file' = PartialFile
            /\ store' = [store EXCEPT ![p].pc = "partial"]
            /\ UNCHANGED fhist
    /\ last' = NoCall
    /\ UNCHANGED <<mvars, nvars, cvars, uvars, zvars>>

\* Process p is killed inside a Store method.
StoreCrash(p) ==
    /\ store[p].pc # "idle"
    /\ store' = [store EXCEPT ![p] = IdleStore]
    /\ fhist' = [fhist EXCEPT !.crashed = TRUE]
    /\ last' = NoCall
    /\ UNCHANGED <<file, mvars, nvars, cvars, uvars, zvars>>

\* Store.ListVMs of one more process: RLock of its own mutex, loadVMs.
StoreRead ==
    /\ LET l == loadVMs(file) IN
       last' = Call("loadVMs", 0, l.ok,
                    IF l.ok THEN "none" ELSE "StoreError",
                    l.vms, fhist.prev, {}, {})
    /\ UNCHANGED <<registry, procs, taps, rules, dirs, socks, vsocks, snaps,
                   images, run, nextId, hist, committed, stopped, faults,
                   xvars>>

NextFile ==
    \/ \E p \in Procs, op \in FileOps, id \in IDs : StoreLoad(p, op, id)
    \/ \E p \in Procs : StoreTruncate(p)
    \/ \E p \in Procs, all \in BOOLEAN : StoreWrite(p, all)
    \/ \E p \in Procs : StoreCrash(p)
    \/ StoreRead

SpecFile == Init /\ [][NextFile]_vars

\* C13: whoever reads the registry file, while a mutation is being written
\* or after its writer was killed, gets the whole previous list of records
\* or the whole new one, never an empty, cut or undecodable document.
C13_ReaderSeesWholeDocument ==
    (last.op = "loadVMs") =>
        /\ last.ok
        /\ \/ last.result = fhist.prev
           \/ \E p \in Procs : /\ store[p].pc \in {"truncated", "partial"}
                               /\ last.result = store[p].new

\* C14: when the AddVM, RemoveVM and UpdateVMState calls of several
\* processes (none killed) have all returned, the file holds exactly the
\* records added and not removed, and every updated record has the new
\* state: the calls took effect one after the other in some order.
C14_MutationsAreSerialized ==
    ((\A p \in Procs : store[p].pc = "idle") /\ ~fhist.crashed) =>
        LET l == loadVMs(file) IN
        /\ l.ok
        /\ Ids(l.vms) = fhist.added \ fhist.removed
        /\ \A i \in 1..Len(l.vms) :
               l.vms[i].id \in fhist.updated => l.vms[i].state = "Stopped"

----------------------------------------------------------------------------
(* The paths RunVM derives from the id: network.Setup (part_006:20-34),     *)
(* getSocketPath and getVsockPath (manager.go:261-263, 336-339)             *)

\* vmID[:8]
PrefixLen == 8

\* The ids uuid.New() is taken to return: two groups that agree on their
\* first PrefixLen characters.
VMIDs == {[i \in 1..PrefixLen |-> c] \o <<d>> : c \in {"a", "b"},
                                                 d \in {"0", "1"}}

TapDevice(vmID) == <<"tap-">> \o SubSeq(vmID, 1, PrefixLen)

getSocketPath(vmID) ==
    <<"/tmp/firecracker-">> \o SubSeq(vmID, 1, PrefixLen) \o <<".sock">>

getVsockPath(vmID) == <<"/tmp/micropod-vsock-">> \o vmID

\* RunVM with a new id.  createTapDevice fails when a live Firecracker holds
\* a tap of that name; ok is the outcome of every other step.
NamedRunVM(vmID, ok) ==
    /\ Len(recs) < MaxLen
    /\ vmID \in VMIDs \ Ids(recs)
    /\ IF ok /\ ~\E i \in 1..Len(recs) : /\ recs[i].tap = TapDevice(vmID)
                                         /\ recs[i].id \in nlive
       THEN /\ recs' = Append(recs, [id |-> vmID,
                                     tap |-> TapDevice(vmID),
                                     sock |-> getSocketPath(vmID),
                                     vsock |-> getVsockPath(vmID)])
            /\ nlive' = nlive \cup {vmID}
       ELSE UNCHANGED <<recs, nlive>>
    /\ last' = NoCall
    /\ UNCHANGED <<mvars, fvars, cvars, uvars, zvars>>

NamedProcessExit(vmID) ==
    /\ vmID \in nlive
    /\ nlive' = nlive \ {vmID}
    /\ last' = NoCall
    /\ UNCHANGED <<recs, mvars, fvars, cvars, uvars, zvars>>

\* ListVMs: the records of dead processes are removed.
NamedListVMs ==
    /\ recs' = SelectSeq(recs, LAMBDA vm : vm.id \in nlive)
    /\ last' = Call("ListVMs", 0, TRUE, "none", recs', recs, {}, {})
    /\ UNCHANGED <<nlive, mvars, fvars, cvars, uvars, zvars>>

NamedStopVM(vmID) ==
    /\ HasVM(recs, vmID)
    /\ recs' = RemoveVM(recs, vmID)
    /\ nlive' = nlive \ {vmID}
    /\ last' = Call("StopVM", vmID, TRUE, "none", <<>>, recs, {}, {})
    /\ UNCHANGED <<mvars, fvars, cvars, uvars, zvars>>

NextNames ==
    \/ \E vmID \in VMIDs, ok \in BOOLEAN : NamedRunVM(vmID, ok)
    \/ \E vmID \in VMIDs : NamedProcessExit(vmID)
    \/ NamedListVMs
    \/ \E vmID \in VMIDs : NamedStopVM(vmID)

SpecNames == Init /\ [][NextNames]_vars

\* C15: any two records in the registry at the same time have different
\* tap device names, different API socket paths and different vsock paths.
C15_PathsAreDistinct ==
    \A i, j \in 1..Len(recs) :
        i # j => /\ recs[i].tap # recs[j].tap
                 /\ recs[i].sock # recs[j].sock
                 /\ recs[i].vsock # recs[j].vsock

(***************************************************************************)
(* SpecCowSvc: the copy-on-write rootfs service (pkg/rootfs/cow_service.go *)
(* over pkg/cow).  The host holds the device-mapper mappings, the attached *)
(* loop devices and the CoW files; every process holds one CowService with *)
(* its two in-memory tables.  A command fails exactly when the host state  *)
(* makes it fail: dmsetup remove of a mapping that does not exist or that  *)
(* another mapping holds open, dmsetup create of a name that exists,       *)
(* losetup -d of a device that is not attached, losetup --find with no     *)
(* free device.                                                            *)
(***************************************************************************)

\* Bound: number of loop devices of the host.
MaxLoops == 3

CowRefs == Refs

\* The files a loop device can be backed by.
CowFile(vmID) == [kind |-> "cow", vm |-> vmID, ref |-> "-"]
BaseImage(imageRef) == [kind |-> "base", vm |-> 0, ref |-> imageRef]

\* The device-mapper names, micropod-vm-<id> and micropod-base-<ref>.
SnapshotName(vmID) == [kind |-> "vm", vm |-> vmID, ref |-> "-"]
BaseName(imageRef) == [kind |-> "base", vm |-> 0, ref |-> imageRef]

Host == [dmBase |-> dmBase, dmSnap |-> dmSnap, loops |-> loops,
         cowfiles |-> cowfiles]

NewCowService == [baseDevices |-> {}, snapshots |-> {}]

LoopNums(h) == {l.n : l \in h.loops}

\* losetup --find --show: the first unused loop device is attached.
createLoopDevice(h, back) ==
    IF Cardinality(h.loops) >= MaxLoops
    THEN [ok |-> FALSE, dev |-> 0, h |-> h]
    ELSE LET n == CHOOSE k \in 1..MaxLoops :
                      /\ k \notin LoopNums(h)
                      /\ \A m \in 1..(k - 1) : m \in LoopNums(h)
         IN  [ok |-> TRUE, dev |-> n,
              h |-> [h EXCEPT !.loops = @ \cup {[n |-> n, back |-> back]}]]

\* losetup -d.
detachLoopDevice(h, n) ==
    IF n \notin LoopNums(h)
    THEN [ok |-> FALSE, h |-> h]
    ELSE [ok |-> TRUE, h |-> [h EXCEPT !.loops = {l \in @ : l.n # n}]]

\* dmsetup remove --force: the mapping goes even when it is held open.
removeDeviceMappingForce(h, name) ==
    IF name.kind = "base"
    THEN IF \E b \in h.dmBase : b.ref = name.ref
         THEN [ok |-> TRUE,
               h |-> [h EXCEPT !.dmBase = {b \in @ : b.ref # name.ref}]]
         ELSE [ok |-> FALSE, h |-> h]
    ELSE IF \E x \in h.dmSnap : x.vm = name.vm
         THEN [ok |-> TRUE,
               h |-> [h EXCEPT !.dmSnap = {x \in @ : x.vm # name.vm}]]
         ELSE [ok |-> FALSE, h |-> h]

\* dmsetup remove: fails for a name that does not exist and for a mapping
\* that is held open, as a base is by every snapshot stacked on it.
removeDeviceMapping(h, name) ==
    IF name.kind = "base"
    THEN IF /\ \E b \in h.dmBase : b.ref = name.ref
            /\ ~(\E x \in h.dmSnap : x.ref = name.ref)
         THEN [ok |-> TRUE,
               h |-> [h EXCEPT !.dmBase = {b \in @ : b.ref # name.ref}]]
         ELSE [ok |-> FALSE, h |-> h]
    ELSE IF \E x \in h.dmSnap : x.vm = name.vm
         THEN [ok |-> TRUE,
               h |-> [h EXCEPT !.dmSnap = {x \in @ : x.vm # name.vm}]]
         ELSE [ok |-> FALSE, h |-> h]

baseDeviceExists(h, imageRef) == \E b \in h.dmBase : b.ref = imageRef

\* The LoopDevice of an adopted base is the fourth field of its table, a
\* major:minor pair; losetup -d does not take it (0: no loop device).
getExistingBaseDevice(imageRef) == [ref |-> imageRef, loop |-> 0]

createLinearDevice(h, imageRef, loop) ==
    IF baseDeviceExists(h, imageRef)
    THEN [ok |-> FALSE, h |-> h]
    ELSE [ok |-> TRUE,
          h |-> [h EXCEPT !.dmBase = @ \cup {[ref |-> imageRef,
                                              loop |-> loop]}]]

CreateBaseDevice(h, imageRef) ==
    IF baseDeviceExists(h, imageRef)
    THEN [ok |-> TRUE, dev |-> getExistingBaseDevice(imageRef), h |-> h]
    ELSE LET l == createLoopDevice(h, BaseImage(imageRef))
             m == createLinearDevice(l.h, imageRef, l.dev)
         IN  IF ~l.ok
             THEN [ok |-> FALSE, dev |-> getExistingBaseDevice(imageRef),
                   h |-> h]
             ELSE IF ~m.ok
             THEN [ok |-> FALSE, dev |-> getExistingBaseDevice(imageRef),
                   h |-> detachLoopDevice(l.h, l.dev).h]
             ELSE [ok |-> TRUE, dev |-> [ref |-> imageRef, loop |-> l.dev],
                   h |-> m.h]

\* blockdev --getsz of the base, then dmsetup create of the snapshot table.
createSnapshotMapping(h, vmID, imageRef, loop) ==
    IF /\ baseDeviceExists(h, imageRef)
       /\ ~(\E x \in h.dmSnap : x.vm = vmID)
    THEN [ok |-> TRUE,
          h |-> [h EXCEPT !.dmSnap = @ \cup {[vm |-> vmID, ref |-> imageRef,
                                              loop |-> loop]}]]
    ELSE [ok |-> FALSE, h |-> h]

\* createCowFile (dd with count=0) makes the file without emptying one that
\* is there; both error paths delete the path.
CreateSnapshotDevice(h, vmID, baseDevice) ==
    LET h1 == [h EXCEPT !.cowfiles = @ \cup {vmID}]
        l == createLoopDevice(h1, CowFile(vmID))
        m == createSnapshotMapping(l.h, vmID, baseDevice.ref, l.dev)
        dev == [vm |-> vmID, ref |-> baseDevice.ref, loop |-> l.dev]
    IN  IF ~l.ok
        THEN [ok |-> FALSE, dev |-> dev,
              h |-> [h1 EXCEPT !.cowfiles = @ \ {vmID}]]
        ELSE IF ~m.ok
        THEN [ok |-> FALSE, dev |-> dev,
              h |-> [detachLoopDevice(l.h, l.dev).h
                         EXCEPT !.cowfiles = @ \ {vmID}]]
        ELSE [ok |-> TRUE, dev |-> dev, h |-> m.h]

RemoveSnapshotDevice(h, snapshot) ==
    LET r == removeDeviceMapping(h, SnapshotName(snapshot.vm))
        d == detachLoopDevice(r.h, snapshot.loop)
    IN  IF ~r.ok THEN [ok |-> FALSE, h |-> h]
        ELSE IF ~d.ok THEN [ok |-> FALSE, h |-> r.h]
        ELSE [ok |-> TRUE, h |-> [d.h EXCEPT !.cowfiles = @ \ {snapshot.vm}]]

RemoveBaseDevice(h, baseDevice) ==
    LET r == removeDeviceMapping(h, BaseName(baseDevice.ref))
        d == detachLoopDevice(r.h, baseDevice.loop)
    IN  IF ~r.ok THEN [ok |-> FALSE, h |-> h]
        ELSE IF ~d.ok THEN [ok |-> FALSE, h |-> r.h]
        ELSE [ok |-> TRUE, h |-> d.h]

\* The mapping is removed if it is there and the file is deleted if it is
\* there; the loop device of the file is not looked for.
cleanupOrphanedDevice(h, vmID) ==
    [removeDeviceMapping(h, SnapshotName(vmID)).h
         EXCEPT !.cowfiles = @ \ {vmID}]

getOrCreateBaseDevice(h, t, imageRef) ==
    IF \E b \in t.baseDevices : b.ref = imageRef
    THEN [ok |-> TRUE, h |-> h, t |-> t,
          dev |-> CHOOSE b \in t.baseDevices : b.ref = imageRef]
    ELSE LET c == CreateBaseDevice(h, imageRef)
         IN  [ok |-> c.ok, h |-> c.h, dev |-> c.dev,
              t |-> IF c.ok
                    THEN [t EXCEPT !.baseDevices = @ \cup {c.dev}]
                    ELSE t]

CowCall(op, p, vmID, imageRef, ok) ==
    Call(op, vmID, ok, IF ok THEN "none" ELSE "error",
         [proc |-> p, ref |-> imageRef], [h |-> Host, t |-> svc[p]], {}, {})

SetHost(h) ==
    /\ dmBase' = h.dmBase
    /\ dmSnap' = h.dmSnap
    /\ loops' = h.loops
    /\ cowfiles' = h.cowfiles

\* CowService.CreateRootFS; PullImage and CreateBaseImage succeed.
CreateRootFS(p, imageRef, vmID) ==
    LET b == getOrCreateBaseDevice(Host, svc[p], imageRef)
        c == CreateSnapshotDevice(b.h, vmID, b.dev)
    IN  /\ IF ~b.ok
           THEN /\ SetHost(b.h)
                /\ svc' = [svc EXCEPT ![p] = b.t]
           ELSE /\ SetHost(c.h)
                /\ svc' = [svc EXCEPT ![p] =
                       IF c.ok
                       THEN [b.t EXCEPT !.snapshots =
                                {x \in @ : x.vm # vmID} \cup {c.dev}]
                       ELSE b.t]
        /\ last' = CowCall("CreateRootFS", p, vmID, imageRef, b.ok /\ c.ok)
        /\ UNCHANGED <<mvars, fvars, nvars, uvars, zvars>>

\* CowService.RemoveRootFS.
RemoveRootFS(p, vmID) ==
    LET t == svc[p]
        exists == \E x \in t.snapshots : x.vm = vmID
        snapshot == CHOOSE x \in t.snapshots : x.vm = vmID
        r == RemoveSnapshotDevice(Host, snapshot)
    IN  /\ IF ~exists
           THEN /\ SetHost(cleanupOrphanedDevice(Host, vmID))
                /\ UNCHANGED svc
           ELSE /\ SetHost(r.h)
                /\ svc' = IF r.ok
                          THEN [svc EXCEPT ![p].snapshots =
                                               {x \in @ : x.vm # vmID}]
                          ELSE svc
        /\ last' = CowCall("RemoveRootFS", p, vmID, "-", ~exists \/ r.ok)
        /\ UNCHANGED <<mvars, fvars, nvars, uvars, zvars>>

\* removeUnused with the test of the reference count inverted.
RECURSIVE removeUsed(_, _, _)
removeUsed(h, t, todo) ==
    IF todo = {} THEN [h |-> h, t |-> t]
    ELSE LET b == CHOOSE x \in todo : TRUE
             r == RemoveBaseDevice(h, b)
         IN  IF ~(\E x \in t.snapshots : x.ref = b.ref)
             THEN removeUsed(h, t, todo \ {b})
             ELSE IF ~r.ok
             THEN removeUsed(r.h, t, todo \ {b})
             ELSE removeUsed(r.h, [t EXCEPT !.baseDevices = @ \ {b}],
                             todo \ {b})

\* The loop of CleanupUnusedBaseDevices over s.baseDevices; the entries are
\* of different names and different loop devices, so that the order in
\* which the map yields them makes no difference.
RECURSIVE removeUnused(_, _, _)
removeUnused(h, t, todo) ==
    IF todo = {} THEN [h |-> h, t |-> t]
    ELSE LET b == CHOOSE x \in todo : TRUE
             r == RemoveBaseDevice(h, b)
         IN  IF \E x \in t.snapshots : x.ref = b.ref
             THEN removeUnused(h, t, todo \ {b})
             ELSE IF ~r.ok
             THEN removeUnused(r.h, t, todo \ {b})
             ELSE removeUnused(r.h, [t EXCEPT !.baseDevices = @ \ {b}],
                               todo \ {b})

\* CowService.CleanupUnusedBaseDevices, the GC of the base devices.
CleanupUnusedBaseDevices(p) ==
    LET g == removeUnused(Host, svc[p], svc[p].baseDevices)
    IN  /\ SetHost(g.h)
        /\ svc' = [svc EXCEPT ![p] = g.t]
        /\ last' = CowCall("CleanupUnusedBaseDevices", p, 0, "-", TRUE)
        /\ UNCHANGED <<mvars, fvars, nvars, uvars, zvars>>

RECURSIVE removeAllSnapshots(_, _)
removeAllSnapshots(h, todo) ==
    IF todo = {} THEN h
    ELSE LET x == CHOOSE y \in todo : TRUE
         IN  removeAllSnapshots(RemoveSnapshotDevice(h, x).h, todo \ {x})

RECURSIVE removeAllBases(_, _)
removeAllBases(h, todo) ==
    IF todo = {} THEN h
    ELSE LET b == CHOOSE y \in todo : TRUE
         IN  removeAllBases(RemoveBaseDevice(h, b).h, todo \ {b})

\* CowService.Cleanup: the errors are warnings and both tables are reset.
Cleanup(p) ==
    /\ svc[p] # NewCowService
    /\ SetHost(removeAllBases(removeAllSnapshots(Host, svc[p].snapshots),
                              svc[p].baseDevices))
    /\ svc' = [svc EXCEPT ![p] = NewCowService]
    /\ last' = CowCall("Cleanup", p, 0, "-", TRUE)
    /\ UNCHANGED <<mvars, fvars, nvars, uvars, zvars>>

\* The process ends and the next command starts a new one: NewManager
\* calls NewCowService, whose tables are empty.
CowRestart(p) ==
    /\ svc[p] # NewCowService
    /\ svc' = [svc EXCEPT ![p] = NewCowService]
    /\ last' = NoCall
    /\ UNCHANGED <<dmBase, dmSnap, loops, cowfiles, mvars, fvars, nvars,
                   uvars, zvars>>

NextCowSvc ==
    \/ \E p \in Procs, imageRef \in CowRefs, vmID \in IDs :
           CreateRootFS(p, imageRef, vmID)
    \/ \E p \in Procs, vmID \in IDs : RemoveRootFS(p, vmID)
    \/ \E p \in Procs : CleanupUnusedBaseDevices(p)
    \/ \E p \in Procs : Cleanup(p)
    \/ \E p \in Procs : CowRestart(p)

SpecCowSvc == Init /\ [][NextCowSvc]_vars

SnapshotsOf(h, vmID) == {x \in h.dmSnap : x.vm = vmID}

CowLoopsOf(h, vmID) == {l \in h.loops : l.back = CowFile(vmID)}

C18_RoundTrip ==
    (last.op = "RemoveRootFS" /\ last.ok) =>
        /\ SnapshotsOf(Host, last.id) = {}
        /\ CowLoopsOf(Host, last.id) = {}
        /\ last.id \notin cowfiles
        /\ dmBase = last.pre.h.dmBase
        /\ \A id \in IDs \ {last.id} :
               /\ SnapshotsOf(Host, id) = SnapshotsOf(last.pre.h, id)
               /\ CowLoopsOf(Host, id) = CowLoopsOf(last.pre.h, id)
               /\ (id \in cowfiles) = (id \in last.pre.h.cowfiles)

\* C19: an id has at most one snapshot mapping and at most one CoW loop
\* device, a snapshot mapping has its CoW file, and CreateRootFS for an id
\* that has a snapshot mapping leaves its mapping, loop device and file.
C19_OneSnapshotPerVM ==
    /\ \A id \in IDs :
           /\ Cardinality(SnapshotsOf(Host, id)) <= 1
           /\ Cardinality(CowLoopsOf(Host, id)) <= 1
           /\ SnapshotsOf(Host, id) # {} => id \in cowfiles
    /\ (last.op = "CreateRootFS" /\ SnapshotsOf(last.pre.h, last.id) # {}) =>
           /\ SnapshotsOf(Host, last.id) = SnapshotsOf(last.pre.h, last.id)
           /\ CowLoopsOf(Host, last.id) = CowLoopsOf(last.pre.h, last.id)
           /\ last.id \in last.pre.h.cowfiles => last.id \in cowfiles

(***************************************************************************)
(* SpecUnpack: Manager.Unpack of pkg/image/manager.go.  One action is one  *)
(* iteration of the loop of extractLayer over the tar headers of a layer;  *)
(* the header is whatever the archive holds next.  A name is the sequence  *)
(* of its pieces, the piece ".wh." standing for that substring, so that    *)
(* strings.Contains and a prefix test are different tests.                 *)
(***************************************************************************)

\* Bound: number of layers of the image.
MaxLayers == 2

\* Bound: number of tar headers of one layer.
MaxEntries == 2

\* Directories and base names of the entries: a plain name, its whiteout,
\* a name with ".wh." in the middle, and the opaque marker .wh..wh..opq.
EntryDirs == {<<"d">>}

OpaqueMarker == <<".wh.", ".wh.", ".opq">>

BaseNames == {<<"a">>, <<".wh.", "a">>, <<"a", ".wh.", "b">>, OpaqueMarker}

Headers == [dir : EntryDirs, base : BaseNames]

\* header.Name, the pieces of the directory and of the base name in a row.
HeaderName(e) == e.dir \o e.base

\* filepath.Join(destPath, header.Name), relative to destPath.
Target(dir, base) == <<dir, base>>

\* strings.Contains(header.Name, ".wh.")
ContainsWh(name) == \E i \in 1..Len(name) : name[i] = ".wh."

\* One iteration of the loop of extractLayer, for a regular file: an entry
\* whose name contains ".wh." is skipped, any other is written.
extractEntry(d, e) ==
    IF ContainsWh(HeaderName(e))
    THEN d
    ELSE d \cup {Target(e.dir, e.base)}

\* Unpack up to its loop: destPath is a directory made for this call.
UnpackBegin ==
    /\ unpack.pc = "idle"
    /\ unpack' = [pc |-> "extract", layer |-> 1, read |-> 0]
    /\ ulog' = <<>>
    /\ dest' = {}
    /\ UNCHANGED <<last, mvars, fvars, nvars, cvars, zvars>>

extractLayerStep(e) ==
    /\ unpack.pc = "extract"
    /\ unpack.read < MaxEntries
    /\ unpack' = [unpack EXCEPT !.read = @ + 1]
    /\ ulog' = Append(ulog, [layer |-> unpack.layer, dir |-> e.dir,
                             base |-> e.base])
    /\ dest' = extractEntry(dest, e)
    /\ UNCHANGED <<last, mvars, fvars, nvars, cvars, zvars>>

\* io.EOF of a layer that is not the last one.
UnpackNextLayer ==
    /\ unpack.pc = "extract"
    /\ unpack.layer < MaxLayers
    /\ unpack' = [unpack EXCEPT !.layer = @ + 1, !.read = 0]
    /\ UNCHANGED <<ulog, dest, last, mvars, fvars, nvars, cvars,
                   zvars>>

\* io.EOF of the last layer: Unpack returns destPath.
UnpackReturn ==
    /\ unpack.pc = "extract"
    /\ unpack' = [unpack EXCEPT !.pc = "done"]
    /\ UNCHANGED <<ulog, dest, last, mvars, fvars, nvars, cvars,
                   zvars>>

NextUnpack ==
    \/ UnpackBegin
    \/ \E e \in Headers : extractLayerStep(e)
    \/ UnpackNextLayer
    \/ UnpackReturn

SpecUnpack == Init /\ [][NextUnpack]_vars

\* A whiteout entry: the base name begins with ".wh." and goes on.
IsWhiteout(base) ==
    Len(base) > 1 /\ base[1] = ".wh." /\ base # OpaqueMarker

\* C20: after Unpack, for a whiteout entry .wh.<name> of directory d, the
\* whiteout entry is not under dest, and d/<name> is not under dest when an
\* earlier layer brought it and no entry of the whiteout's layer or of a
\* later one brings it again; an entry that has ".wh." elsewhere than at
\* the beginning of its base name is under dest.
C20_WhiteoutsApplied ==
    unpack.pc = "done" =>
        \A k \in 1..Len(ulog) :
            LET e == ulog[k]
            IN  IF IsWhiteout(e.base)
                THEN /\ Target(e.dir, e.base) \notin dest
                     /\ (/\ \E i \in 1..Len(ulog) :
                                /\ ulog[i].layer < e.layer
                                /\ ulog[i].dir = e.dir
                                /\ ulog[i].base = Tail(e.base)
                         /\ ~(\E j \in 1..Len(ulog) :
                                /\ ulog[j].layer >= e.layer
                                /\ ulog[j].dir = e.dir
                                /\ ulog[j].base = Tail(e.base)))
                            => Target(e.dir, Tail(e.base)) \notin dest
                ELSE (ContainsWh(e.base) /\ e.base # OpaqueMarker)
                         => Target(e.dir, e.base) \in dest

\* C21: after Unpack, for an opaque marker of directory d in layer n, an
\* entry of d of an earlier layer that no entry of layer n or later brings
\* again is not under dest, and an entry of d of layer n or later with an
\* ordinary name, which no whiteout of a later layer hides, is under dest.
C21_OpaqueDirectory ==
    unpack.pc = "done" =>
        \A k \in 1..Len(ulog) :
            ulog[k].base = OpaqueMarker =>
                \A i \in 1..Len(ulog) :
                    LET e == ulog[i]
                        again == \E j \in 1..Len(ulog) :
                                     /\ ulog[j].layer >= ulog[k].layer
                                     /\ ulog[j].dir = e.dir
                                     /\ ulog[j].base = e.base
                        hidden == \E j \in 1..Len(ulog) :
                                      /\ ulog[j].layer > e.layer
                                      /\ ulog[j].dir = e.dir
                                      /\ \/ ulog[j].base = <<".wh.">> \o e.base
                                         \/ ulog[j].base = OpaqueMarker
                    IN  (e.dir = ulog[k].dir /\ ~ContainsWh(e.base)) =>
                            /\ (e.layer < ulog[k].layer /\ ~again)
                                   => Target(e.dir, e.base) \notin dest
                            /\ (e.layer >= ulog[k].layer /\ ~hidden)
                                   => Target(e.dir, e.base) \in dest

(***************************************************************************)
(* SpecImage: the image store, Manager of pkg/image/manager.go, called by  *)
(* one caller; a call is one action.  The registry is the digest that a    *)
(* reference resolves to, which changes when a tag is moved.               *)
(***************************************************************************)

Digests == {"d1", "d2"}

\* getImageLayers: the layer digests of the image of a manifest digest.
getImageLayers(digest) == <<<<digest, 1>>, <<digest, 2>>>>

NoView == [ref |-> <<>>, digest |-> "none", layers |-> <<>>]

\* Manager.GetImage on the layouts L.
getImage(L, refString) ==
    LET l == L[getLayoutPath(refString)]
    IN  IF ~l.exists
        THEN [ok |-> FALSE, err |-> "NotFound", view |-> NoView]
        ELSE IF Len(l.index) = 0
        THEN [ok |-> FALSE, err |-> "NoImages", view |-> NoView]
        ELSE [ok |-> TRUE, err |-> "none",
              view |-> [ref |-> refString, digest |-> l.index[1],
                        layers |-> getImageLayers(l.index[1])]]

\* What the call before this one was.
Prev == [op |-> last.op, id |-> last.id, ok |-> last.ok,
         result |-> last.result]

ImgCall(op, refString, ok, err, view, net) ==
    Call(op, refString, ok, err, view,
         [layouts |-> layouts, prev |-> Prev, stored |-> stored,
          remote |-> remote], net, {})

PullOutcomes == {"ok", "PullError", "WriteError", "AppendError"}

\* layout.FromPath, and layout.Write with the empty index when it fails.
openLayout(l) == IF l.exists THEN l ELSE [exists |-> TRUE, index |-> <<>>]

\* PullImage from crane.Pull on: every call goes to the registry.
PullImageFetch(refString, out) ==
    LET path == getLayoutPath(refString)
        digest == remote[refString]
        view == [ref |-> refString, digest |-> digest,
                 layers |-> getImageLayers(digest)]
        opened == [layouts EXCEPT ![path] = openLayout(@)]
    IN  /\ out = "WriteError" => ~layouts[path].exists
        /\ layouts' =
               CASE out = "ok" ->
                        [opened EXCEPT ![path].index = Append(@, digest)]
                 [] out = "AppendError" -> opened
                 [] OTHER -> layouts
        /\ stored' = IF out = "ok" THEN stored \cup {refString} ELSE stored
        /\ last' = ImgCall("PullImage", refString, out = "ok",
                           IF out = "ok" THEN "none" ELSE out,
                           IF out = "ok" THEN view ELSE NoView, TRUE)
        /\ UNCHANGED <<remote, pulls, mvars, fvars, nvars, cvars, uvars,
                       yvars>>

\* PullImage without the look into the local store.
PullImageNoLocalCheck(refString, out) == PullImageFetch(refString, out)

\* Manager.PullImage.
PullImage(refString, out) ==
    LET g == getImage(layouts, refString)
    IN  IF g.ok
        THEN /\ out = "ok"
             /\ stored' = stored \cup {refString}
             /\ last' = ImgCall("PullImage", refString, TRUE, "none",
                                g.view, FALSE)
             /\ UNCHANGED <<layouts, remote, pulls, mvars, fvars, nvars,
                            cvars, uvars, yvars>>
        ELSE PullImageFetch(refString, out)

\* Manager.GetImage.
GetImage(refString) ==
    LET g == getImage(layouts, refString)
    IN  /\ last' = ImgCall("GetImage", refString, g.ok, g.err, g.view, FALSE)
        /\ UNCHANGED <<ivars, mvars, fvars, nvars, cvars, uvars, yvars>>

\* Manager.DeleteImage: os.RemoveAll of the layout path.
DeleteImage(refString) ==
    /\ layouts' = [layouts EXCEPT ![getLayoutPath(refString)] = NoLayout]
    /\ stored' = stored \ {refString}
    /\ last' = ImgCall("DeleteImage", refString, TRUE, "none", NoView, FALSE)
    /\ UNCHANGED <<remote, pulls, mvars, fvars, nvars, cvars, uvars, yvars>>

\* The tag of a reference is moved to another image at the registry.
RemoteUpdate(refString, digest) ==
    /\ remote[refString] # digest
    /\ remote' = [remote EXCEPT ![refString] = digest]
    /\ UNCHANGED <<layouts, stored, pulls, last, mvars, fvars, nvars, cvars,
                   uvars, yvars>>

NextImage ==
    \/ \E ref \in ImgRefs, out \in PullOutcomes : PullImage(ref, out)
    \/ \E ref \in ImgRefs : GetImage(ref)
    \/ \E ref \in ImgRefs : DeleteImage(ref)
    \/ \E ref \in ImgRefs, d \in Digests : RemoteUpdate(ref, d)

SpecImage == Init /\ [][NextImage]_vars

\* C22: a PullImage(ref) that comes right after a PullImage(ref) that
\* succeeded does not go to the registry, leaves the layouts as they are
\* and returns the view that the first one returned.
C22_PullIsIdempotent ==
    (/\ last.op = "PullImage"
     /\ last.pre.prev.op = "PullImage"
     /\ last.pre.prev.id = last.id
     /\ last.pre.prev.ok) =>
        /\ last.ok
        /\ ~last.tried
        /\ layouts = last.pre.layouts
        /\ last.result = last.pre.prev.result

\* The second of two PullImage(ref) has returned after the tag of ref was
\* moved at the registry in between.
C22_Witness ==
    /\ last.op = "PullImage"
    /\ last.ok
    /\ last.pre.prev.op = "PullImage"
    /\ last.pre.prev.id = last.id
    /\ last.pre.prev.ok
    /\ last.pre.remote[last.id] # last.result.digest

\* C23: GetImage(ref) returns a view exactly when ref is a ref that a
\* PullImage(ref) stored with success and no DeleteImage(ref) removed
\* since, and for a ref that is not such a ref the error is not-found.
C23_GetImageFindsWhatWasPulled ==
    last.op = "GetImage" =>
        /\ last.ok <=> last.id \in last.pre.stored
        /\ last.ok => last.result.ref = last.id
        /\ (last.id \notin last.pre.stored /\ ~last.pre.layouts[
                getLayoutPath(last.id)].exists) => last.err = "NotFound"

(***************************************************************************)
(* SpecImagePar: PullImage and Unpack of several callers on one image      *)
(* directory.  The Manager holds no lock, so that the statements of        *)
(* PullImage of one caller interleave with those of another: the look into *)
(* the local store, crane.Pull, the opening or creation of the layout, and *)
(* AppendImage.                                                            *)
(***************************************************************************)

ParCall(op, refString, ok, err, view) ==
    Call(op, refString, ok, err, view, <<>>, {}, {})

\* PullImage up to the test of GetImage.
ParPullCheck(p, refString) ==
    LET g == getImage(layouts, refString)
    IN  /\ pulls[p].pc = "idle"
        /\ IF g.ok
           THEN /\ last' = ParCall("PullImage", refString, TRUE, "none",
                                   g.view)
                /\ UNCHANGED pulls
           ELSE /\ pulls' = [pulls EXCEPT ![p] = [pc |-> "fetch",
                                                  ref |-> refString,
                                                  digest |-> "none"]]
                /\ last' = NoCall
        /\ UNCHANGED <<layouts, remote, stored, mvars, fvars, nvars, cvars,
                       uvars, yvars>>

\* crane.Pull and img.Digest.
ParPullFetch(p) ==
    /\ pulls[p].pc = "fetch"
    /\ pulls' = [pulls EXCEPT ![p].pc = "open",
                              ![p].digest = remote[pulls[p].ref]]
    /\ last' = NoCall
    /\ UNCHANGED <<layouts, remote, stored, mvars, fvars, nvars, cvars,
                   uvars, yvars>>

\* layout.FromPath, or layout.Write of the empty index.
ParPullOpen(p) ==
    /\ pulls[p].pc = "open"
    /\ layouts' = [layouts EXCEPT ![getLayoutPath(pulls[p].ref)] =
                                      openLayout(@)]
    /\ pulls' = [pulls EXCEPT ![p].pc = "append"]
    /\ last' = NoCall
    /\ UNCHANGED <<remote, stored, mvars, fvars, nvars, cvars, uvars, yvars>>

\* p.AppendImage and the return of the view.
ParPullAppend(p) ==
    LET refString == pulls[p].ref
        digest == pulls[p].digest
    IN  /\ pulls[p].pc = "append"
        /\ layouts' = [layouts EXCEPT ![getLayoutPath(refString)].index =
                                          Append(@, digest)]
        /\ pulls' = [pulls EXCEPT ![p] = IdlePull]
        /\ last' = ParCall("PullImage", refString, TRUE, "none",
                           [ref |-> refString, digest |-> digest,
                            layers |-> getImageLayers(digest)])
        /\ UNCHANGED <<remote, stored, mvars, fvars, nvars, cvars, uvars,
                       yvars>>

\* Manager.Unpack up to the reading of the index of the layout.
ParUnpack(p, refString) ==
    LET g == getImage(layouts, refString)
    IN  /\ pulls[p].pc = "idle"
        /\ last' = ParCall("Unpack", refString, g.ok, g.err, g.view)
        /\ UNCHANGED <<ivars, mvars, fvars, nvars, cvars, uvars, yvars>>

NextImagePar ==
    \/ \E p \in Procs, ref \in ImgRefs : ParPullCheck(p, ref)
    \/ \E p \in Procs : ParPullFetch(p)
    \/ \E p \in Procs : ParPullOpen(p)
    \/ \E p \in Procs : ParPullAppend(p)
    \/ \E p \in Procs, ref \in ImgRefs : ParUnpack(p, ref)

SpecImagePar == Init /\ [][NextImagePar]_vars

\* C24: an Unpack or a PullImage never finds a layout directory whose index
\* a PullImage in flight has not filled yet, and the index of a layout
\* that no PullImage is at work on lists one image.
C24_PullsAreSerialized ==
    /\ last.op \in {"Unpack", "PullImage"} => last.err # "NoImages"
    /\ \A ref \in ImgRefs :
           (\A p \in Procs :
                pulls[p].pc = "idle"
                    \/ getLayoutPath(pulls[p].ref) # getLayoutPath(ref))
               => Len(layouts[getLayoutPath(ref)].index) <= 1

(***************************************************************************)
(* SpecPorts: parsePortMappings of pkg/network, a function of its          *)
(* argument.  A mapping is the sequence of its characters.                 *)
(***************************************************************************)

\* Bound: number of mappings of one call.
MaxMappings == 2

\* The -p arguments the calls are made with.
Mappings == {<<"8">>, <<"a", ":", "8">>, <<"8", ":", "d">>,
             <<"8", ":", "8", ":", "9">>, <<"8", ":", "8">>,
             <<"4", ":", "4">>, <<"8", ":", "9">>, <<":">>, <<"8", ":">>,
             <<"-", "1", ":", "+", "2">>, <<"1", "2", ":", "3">>,
             <<"0", "8", ":", "7">>}

MappingLists ==
    UNION {[1..n -> Mappings] : n \in 0..MaxMappings}

DigitChars == {"0", "1", "2", "3", "4", "7", "8", "9"}

DigitVal(c) ==
    CASE c = "0" -> 0 [] c = "1" -> 1 [] c = "2" -> 2 [] c = "3" -> 3
      [] c = "4" -> 4 [] c = "7" -> 7 [] c = "8" -> 8 [] c = "9" -> 9

\* strings.Split(mapping, ":"): the pieces between the colons.
RECURSIVE SplitColon(_)
SplitColon(str) ==
    IF \A i \in 1..Len(str) : str[i] # ":"
    THEN <<str>>
    ELSE LET k == CHOOSE i \in 1..Len(str) :
                      str[i] = ":" /\ \A j \in 1..(i - 1) : str[j] # ":"
         IN  <<SubSeq(str, 1, k - 1)>>
                 \o SplitColon(SubSeq(str, k + 1, Len(str)))

RECURSIVE DecimalVal(_)
DecimalVal(str) ==
    IF str = <<>> THEN 0
    ELSE 10 * DecimalVal(SubSeq(str, 1, Len(str) - 1))
             + DigitVal(str[Len(str)])

\* strconv.Atoi: an optional sign, then one decimal digit or more.
Atoi(str) ==
    LET signed == str # <<>> /\ str[1] \in {"+", "-"}
        digits == IF signed THEN Tail(str) ELSE str
    IN  IF digits = <<>> \/ \E i \in 1..Len(digits) : digits[i] \notin DigitChars
        THEN [ok |-> FALSE, val |-> 0]
        ELSE [ok |-> TRUE,
              val |-> IF signed /\ str[1] = "-"
                      THEN 0 - DecimalVal(digits)
                      ELSE DecimalVal(digits)]

\* PutPort that keeps the entry a host port has.
PutPortIfAbsent(result, hostPort, guestPort) ==
    IF \E e \in result : e.host = hostPort
    THEN result
    ELSE result \cup {[host |-> hostPort, guest |-> guestPort]}

\* result[hostPort] = guestPort on a map kept as a set of pairs.
PutPort(result, hostPort, guestPort) ==
    {e \in result : e.host # hostPort}
        \cup {[host |-> hostPort, guest |-> guestPort]}

\* The loop of parsePortMappings, from mapping i on.
RECURSIVE parseFrom(_, _, _)
parseFrom(mappings, i, result) ==
    IF i > Len(mappings)
    THEN [ok |-> TRUE, err |-> "none", result |-> result]
    ELSE LET parts == SplitColon(mappings[i])
         IN  IF Len(parts) # 2
             THEN [ok |-> FALSE, err |-> "InvalidFormat", result |-> {}]
             ELSE IF ~Atoi(parts[1]).ok
             THEN [ok |-> FALSE, err |-> "InvalidHostPort", result |-> {}]
             ELSE IF ~Atoi(parts[2]).ok
             THEN [ok |-> FALSE, err |-> "InvalidGuestPort", result |-> {}]
             ELSE parseFrom(mappings, i + 1,
                            PutPort(result, Atoi(parts[1]).val,
                                    Atoi(parts[2]).val))

parsePortMappings(mappings) == parseFrom(mappings, 1, {})

ParsePorts(mappings) ==
    LET r == parsePortMappings(mappings)
    IN  /\ last' = Call("parsePortMappings", 0, r.ok, r.err, r.result,
                        mappings, {}, {})
        /\ UNCHANGED <<mvars, xvars>>

NextPorts == \E mappings \in MappingLists : ParsePorts(mappings)

SpecPorts == Init /\ [][NextPorts]_vars

\* The number of colons of a mapping.
Colons(str) == Cardinality({i \in 1..Len(str) : str[i] = ":"})

\* An integer in writing: digits, with or without a sign in front.
IsInteger(str) ==
    \/ str # <<>> /\ \A i \in 1..Len(str) : str[i] \in DigitChars
    \/ /\ Len(str) > 1
       /\ str[1] \in {"+", "-"}
       /\ \A i \in 2..Len(str) : str[i] \in DigitChars

ColonAt(str) == CHOOSE i \in 1..Len(str) : str[i] = ":"

HostPart(str) == SubSeq(str, 1, ColonAt(str) - 1)

GuestPart(str) == SubSeq(str, ColonAt(str) + 1, Len(str))

IsHostGuest(str) ==
    Colons(str) = 1 /\ IsInteger(HostPart(str)) /\ IsInteger(GuestPart(str))

\* C25: parsePortMappings returns a map exactly when every mapping is
\* host:guest with two integers, the map then has, for every host port
\* named, the guest port of the last mapping that names it, and nothing
\* else; otherwise it returns an error and no map.
C25_ParsePortMappings ==
    last.op = "parsePortMappings" =>
        LET ms == last.pre
            good == \A i \in 1..Len(ms) : IsHostGuest(ms[i])
            host(i) == Atoi(HostPart(ms[i])).val
            guest(i) == Atoi(GuestPart(ms[i])).val
        IN  /\ last.ok <=> good
            /\ ~good => last.result = {} /\ last.err # "none"
            /\ good =>
                   last.result =
                       {[host |-> host(i), guest |-> guest(i)] :
                            i \in {k \in 1..Len(ms) :
                                       \A j \in (k + 1)..Len(ms) :
                                           host(j) # host(k)}}

\* Two mappings that name one host port with different guest ports.
C25_Witness ==
    /\ last.op = "parsePortMappings"
    /\ last.ok
    /\ Len(last.pre) = 2
    /\ Cardinality(last.result) = 1
    /\ last.pre[1] # last.pre[2]

(***************************************************************************)
(* SpecHash: hashVMID of pkg/network and the subnet index Setup derives    *)
(* from it.  An id is the sequence of its code points.                     *)
(***************************************************************************)

\* Bound: number of code points of an id.
MaxIdLen == 3

\* NUL, "a" and the largest code point a rune of the range loop can be.
Runes == {0, 97, 1114111}

HashIDs == UNION {[1..n -> Runes] : n \in 0..MaxIdLen}

\* The largest int of the narrowest build (GOARCH with 32-bit int).
MaxInt == 2147483647

HashMod == 254

\* Go's %: the result has the sign of the dividend.
GoMod(a, b) == IF a >= 0 THEN a % b ELSE 0 - ((0 - a) % b)

\* The loop body without the reduction.
hashStepNoMod(hash, char) == hash * 31 + char

\* hash = (hash*31 + int(char)) % 254
hashStep(hash, char) == GoMod(hash * 31 + char, HashMod)

\* The loop of hashVMID over the first n code points: the hash and the
\* largest value computed on the way.
RECURSIVE hashLoop(_, _)
hashLoop(vmID, n) ==
    IF n = 0 THEN [hash |-> 0, peak |-> 0]
    ELSE LET h == hashLoop(vmID, n - 1)
             sum == h.hash * 31 + vmID[n]
         IN  [hash |-> hashStep(h.hash, vmID[n]),
              peak |-> IF sum > h.peak THEN sum ELSE h.peak]

hashVMID(vmID) ==
    LET hash == hashLoop(vmID, Len(vmID)).hash
    IN  IF hash < 0 THEN 0 - hash ELSE hash

\* vmIndex := hashVMID(vmID)%254 + 1
vmIndex(vmID) == GoMod(hashVMID(vmID), HashMod) + 1

NoHash == [vmID |-> <<>>, hash |-> -1]

\* One call; the call before it is kept to compare two calls on one id.
HashCall(vmID) ==
    /\ last' = Call("hashVMID", 0, TRUE, "none",
                    [hash |-> hashVMID(vmID),
                     peak |-> hashLoop(vmID, Len(vmID)).peak,
                     index |-> vmIndex(vmID)],
                    [vmID |-> vmID,
                     prev |-> IF last.op = "hashVMID"
                              THEN [vmID |-> last.pre.vmID,
                                    hash |-> last.result.hash]
                              ELSE NoHash],
                    {}, {})
    /\ UNCHANGED <<mvars, xvars>>

NextHash == \E vmID \in HashIDs : HashCall(vmID)

SpecHash == Init /\ [][NextHash]_vars

\* C26: hashVMID returns a value of 0..253 for every id, the empty one
\* included, no value computed on the way leaves the range of int, two
\* calls on one id return one value, and the subnet index is in 1..254.
C26_HashInRange ==
    last.op = "hashVMID" =>
        /\ last.result.hash \in 0..253
        /\ last.result.peak <= MaxInt
        /\ last.result.index \in 1..254
        /\ (last.pre.prev # NoHash /\ last.pre.prev.vmID = last.pre.vmID)
               => last.pre.prev.hash = last.result.hash

\* The longest id of the largest code points, hashed twice.
C26_Witness ==
    /\ last.op = "hashVMID"
    /\ last.pre.vmID = [i \in 1..MaxIdLen |-> 1114111]
    /\ last.pre.prev.vmID = last.pre.vmID
    /\ last.result.peak > 1114111

(***************************************************************************)
(* SpecNet: Setup and Teardown of pkg/network on the host's link table,    *)
(* its nat table and its default route.                                    *)
(***************************************************************************)

\* Bound: number of rules of the nat table.
MaxRules == 3

\* The -p arguments RunVM passes on: none, one mapping, one that is not
\* host:guest.
PortArgs == {<<>>, <<<<"8", ":", "9">>>>, <<<<"8">>>>}

\* The device of the default route; "none" when there is no default route.
Ifaces == {"eth0", "wlan0", "none"}

\* The ids of the VMs of the host: one of each group of VMIDs.
NetIDs == {vmID \in VMIDs : vmID[PrefixLen + 1] = "0"}

RuneOf(c) ==
    CASE c = "a" -> 97 [] c = "b" -> 98 [] c = "0" -> 48 [] c = "1" -> 49

\* 172.18.<vmIndex>.2, kept as the index.
GuestIP(vmID) == vmIndex([i \in 1..Len(vmID) |-> RuneOf(vmID[i])])

\* The Config Setup fills in for an id and a parsed map.
NetConfig(vmID, portMap) ==
    [VMID |-> vmID, TapDevice |-> TapDevice(vmID), GuestIP |-> GuestIP(vmID),
     PortMappings |-> portMap]

natRule(config, iface) ==
    [chain |-> "POSTROUTING", src |-> config.GuestIP, out |-> iface,
     dport |-> 0, to |-> 0]

dnatRule(config, e) ==
    [chain |-> "PREROUTING", src |-> 0, out |-> "any",
     dport |-> e.host, to |-> <<config.GuestIP, e.guest>>]

\* The rules of a map of one entry at most, in the order of the range loop.
dnatRules(config) ==
    IF config.PortMappings = {} THEN <<>>
    ELSE <<dnatRule(config, CHOOSE e \in config.PortMappings : TRUE)>>

\* iptables -D: the first rule equal to r goes; no such rule is an error
\* the caller may ignore.
RECURSIVE deleteRule(_, _)
deleteRule(table, r) ==
    IF table = <<>> THEN <<>>
    ELSE IF Head(table) = r THEN Tail(table)
    ELSE <<Head(table)>> \o deleteRule(Tail(table), r)

RECURSIVE deleteRules(_, _)
deleteRules(table, rs) ==
    IF rs = <<>> THEN table
    ELSE deleteRules(deleteRule(table, Head(rs)), Tail(rs))

\* getDefaultInterface: the word after "dev" of ip route show default.
getDefaultInterface(iface) ==
    IF iface = "none" THEN [ok |-> FALSE, iface |-> ""]
    ELSE [ok |-> TRUE, iface |-> iface]

NoNetPrev ==
    [op |-> "none", id |-> <<>>, ok |-> FALSE, ports |-> <<>>,
     links |-> {}, nat |-> <<>>]

\* The call before this one, for a Teardown that follows a Setup.
NetPrev ==
    IF last.op \in {"Setup", "Teardown"}
    THEN [op |-> last.op, id |-> last.id, ok |-> last.ok,
          ports |-> last.pre.ports, links |-> last.pre.links,
          nat |-> last.pre.nat]
    ELSE NoNetPrev

NetCall(op, vmID, ok, err, config, ports) ==
    Call(op, vmID, ok, err, config,
         [ports |-> ports, links |-> links, nat |-> nat,
          prev |-> IF op = "Teardown" THEN NetPrev ELSE NoNetPrev],
         {}, {})

NetFrame ==
    UNCHANGED <<mvars, fvars, nvars, cvars, uvars, ivars, gvars, wvars>>

\* Setup: parsePortMappings, createTapDevice, setupIptables; a failure of
\* setupIptables deletes the tap device again.
Setup(vmID, portMappings) ==
    LET parsed == parsePortMappings(portMappings)
        config == NetConfig(vmID, parsed.result)
        route == getDefaultInterface(defiface)
    IN  /\ Len(nat) + 2 <= MaxRules
        /\ NetFrame
        /\ UNCHANGED defiface
        /\ IF ~parsed.ok
           THEN /\ last' = NetCall("Setup", vmID, FALSE, "ParseError",
                                   <<>>, portMappings)
                /\ UNCHANGED <<links, nat>>
           ELSE IF config.TapDevice \in links
           THEN /\ last' = NetCall("Setup", vmID, FALSE, "TapError",
                                   <<>>, portMappings)
                /\ UNCHANGED <<links, nat>>
           ELSE IF ~route.ok
           THEN /\ last' = NetCall("Setup", vmID, FALSE, "IptablesError",
                                   <<>>, portMappings)
                /\ UNCHANGED <<links, nat>>
           ELSE /\ last' = NetCall("Setup", vmID, TRUE, "none",
                                   config, portMappings)
                /\ links' = links \cup {config.TapDevice}
                /\ nat' = nat \o <<natRule(config, route.iface)>>
                              \o dnatRules(config)

\* cleanupIptables: the rules are named with the default interface of now.
cleanupIptables(config, table, iface) ==
    LET route == getDefaultInterface(iface)
    IN  IF ~route.ok THEN [ok |-> FALSE, nat |-> table]
        ELSE [ok |-> TRUE,
              nat |-> deleteRules(table, <<natRule(config, route.iface)>>
                                             \o dnatRules(config))]

\* cleanupTapDevice: ip link delete fails when the device is absent.
cleanupTapDevice(tapName, devices) ==
    IF tapName \in devices
    THEN [ok |-> TRUE, links |-> devices \ {tapName}]
    ELSE [ok |-> FALSE, links |-> devices]

\* Teardown of the config Setup built for vmID and portMappings.
Teardown(vmID, portMappings) ==
    LET parsed == parsePortMappings(portMappings)
        config == NetConfig(vmID, parsed.result)
        ipt == cleanupIptables(config, nat, defiface)
        tap == cleanupTapDevice(config.TapDevice, links)
    IN  /\ parsed.ok
        /\ NetFrame
        /\ UNCHANGED defiface
        /\ IF ~ipt.ok
           THEN /\ last' = NetCall("Teardown", vmID, FALSE, "IptablesError",
                                   config, portMappings)
                /\ UNCHANGED <<links, nat>>
           ELSE /\ nat' = ipt.nat
                /\ links' = tap.links
                /\ last' = NetCall("Teardown", vmID, tap.ok,
                                   IF tap.ok THEN "none" ELSE "TapError",
                                   config, portMappings)

\* The host's default route moves to another device, or goes.
RouteChange(iface) ==
    /\ iface # defiface
    /\ defiface' = iface
    /\ UNCHANGED <<links, nat, last>>
    /\ NetFrame

NextNet ==
    \/ \E vmID \in NetIDs, ports \in PortArgs : Setup(vmID, ports)
    \/ \E vmID \in NetIDs, ports \in PortArgs : Teardown(vmID, ports)
    \/ \E iface \in Ifaces : RouteChange(iface)

SpecNet == Init /\ [][NextNet]_vars

\* A Teardown that follows the successful Setup of its config.
AfterSetup ==
    /\ last.op = "Teardown"
    /\ last.pre.prev.op = "Setup"
    /\ last.pre.prev.ok
    /\ last.pre.prev.id = last.id
    /\ last.pre.prev.ports = last.pre.ports

\* C27: after a successful Setup and the Teardown of its config, the tap
\* devices and the nat rules of the host are those before the Setup.
C27_NetworkRoundTrip ==
    AfterSetup => links = last.pre.prev.links /\ nat = last.pre.prev.nat

\* C28: a Teardown returns success, whether or not the device and the
\* rules of the config are there, and leaves no tap device of the config.
C28_TeardownBestEffort ==
    last.op = "Teardown" =>
        last.ok /\ last.result.TapDevice \notin links

(***************************************************************************)
(* Manager.RunVM of Spec on a host without the kernel file.                *)
(***************************************************************************)

\* C29: a RunVM that finds no kernel file ends by returning a launch error,
\* with no record of its VM in the registry and with the tap device, the nat
\* rules and the unpacked rootfs of its VM gone.
C29_KernelMissingReturnsError ==
    run.pc = "fatal" =>
        /\ run.err = "LaunchError"
        /\ run.id \notin Ids(registry)
        /\ run.id \notin taps \cup rules \cup dirs

(***************************************************************************)
(* SpecLogs: the logs command of cmd/micropod following the log file of a  *)
(* VM, beside the VM that writes the file and the removal of its record.   *)
(***************************************************************************)

\* Bound: number of lines of the log file.
MaxLog == 3

LogsFrame ==
    UNCHANGED <<mvars, fvars, nvars, cvars, uvars, ivars, tvars, wvars>>

LogsCall(ok, err) ==
    Call("Logs", 0, ok, err, logs.pos, <<>>, {}, {})

\* RunVM stores the record of a VM with a new log file.
LogVMRun ==
    /\ ~logrec
    /\ logs.pc \in {"idle", "done"}
    /\ logrec' = TRUE
    /\ logfile' = 0
    /\ UNCHANGED <<logs, last>>
    /\ LogsFrame

\* The VM writes one more line to its log file.
LogVMWrite ==
    /\ logrec
    /\ logfile < MaxLog
    /\ logfile' = logfile + 1
    /\ UNCHANGED <<logs, logrec, last>>
    /\ LogsFrame

\* StopVM, or the reconciliation of a dead VM, removes the record.
LogVMRemoved ==
    /\ logrec
    /\ logrec' = FALSE
    /\ UNCHANGED <<logs, logfile, last>>
    /\ LogsFrame

\* ListVMs, the search of the record, os.Open: lines 91-121.
LogsStart ==
    /\ logs.pc \in {"idle", "done"}
    /\ IF logrec
       THEN /\ logs' = [pc |-> "reading", pos |-> 0, slept |-> FALSE]
            /\ last' = NoCall
       ELSE /\ logs' = [pc |-> "done", pos |-> 0, slept |-> FALSE]
            /\ last' = LogsCall(FALSE, "NotFound")
    /\ UNCHANGED <<logfile, logrec>>
    /\ LogsFrame

\* r.ReadString: a line is printed, or io.EOF sends the loop to
\* time.Sleep; slept tells that this happened with the record gone.
LogsRead ==
    /\ logs.pc = "reading"
    /\ logs' = IF logs.pos < logfile
               THEN [logs EXCEPT !.pos = @ + 1]
               ELSE [logs EXCEPT !.pc = "sleeping",
                                 !.slept = @ \/ ~logrec]
    /\ UNCHANGED <<logfile, logrec, last>>
    /\ LogsFrame

\* time.Sleep returns and the loop reads again.
LogsWake ==
    /\ logs.pc = "sleeping"
    /\ logs' = [logs EXCEPT !.pc = "reading"]
    /\ UNCHANGED <<logfile, logrec, last>>
    /\ LogsFrame

\* The caller interrupts the command.
LogsCancel ==
    /\ logs.pc \in {"reading", "sleeping"}
    /\ logs' = [logs EXCEPT !.pc = "done"]
    /\ last' = LogsCall(FALSE, "Cancelled")
    /\ UNCHANGED <<logfile, logrec>>
    /\ LogsFrame

NextLogs ==
    \/ LogVMRun
    \/ LogVMWrite
    \/ LogVMRemoved
    \/ LogsStart
    \/ LogsRead
    \/ LogsWake
    \/ LogsCancel

SpecLogs == Init /\ [][NextLogs]_vars

\* The command goes on running as long as it has a step to take.
SpecLogsFair ==
    SpecLogs /\ WF_vars(LogsRead) /\ WF_vars(LogsWake)

\* C30: a logs command that follows the file of a VM whose record is gone
\* comes to an end.
C30_LogsTerminates ==
    (logs.pc \in {"reading", "sleeping"} /\ ~logrec) ~> (logs.pc = "done")

(***************************************************************************)
(* SpecLaunch: Client.LaunchVM and Client.Stop of pkg/firecracker over the *)
(* Firecracker process and its API socket.                                 *)
(***************************************************************************)

\* The answers of Firecracker to a request; "none" stands for a request
\* that got no answer (httpClient.Do returned an error).
Responses == {[status |-> 204, body |-> ""],
              [status |-> 400, body |-> "fault_message"],
              [status |-> 0, body |-> "none"]}

\* The requests of LaunchVM, in the order of its statements.
LaunchOrder(withNet) ==
    IF withNet
    THEN <<"/boot-source", "/drives/vda", "/machine-config",
           "/network-interfaces/eth0", "/actions">>
    ELSE <<"/boot-source", "/drives/vda", "/machine-config", "/actions">>

\* makeAPIRequest without the test of the status.
apiOkAnyStatus(resp) == resp.body # "none"

\* makeAPIRequest returns nil: an answer with a status of 200..299.
apiOk(resp) ==
    resp.body # "none" /\ resp.status >= 200 /\ resp.status < 300

FcCall(op, ok, err, resp) ==
    Call(op, 0, ok, err, resp, [process |-> fc.process, sock |-> fc.sock],
         {}, {})

NoResponse == [status |-> 0, body |-> "none"]

FcFrame == UNCHANGED <<ovars, dial, tree, written, agent, areqs>>

\* c.process.Kill() and c.process.Wait() of killProcess; the error of Kill
\* on a process that was waited for is dropped.
killProcess(process) ==
    IF process \in {"alive", "exited"} THEN "done" ELSE process

\* startFirecrackerProcess: the binary check, the removal of a stale
\* socket file, the log file, cmd.Start.
StartOutcomes == {"nobinary", "rmfail", "logfail", "startfail", "ok"}

LaunchVM_Start(withNet, out) ==
    /\ fc.pc = "idle"
    /\ fc.process = "nil"
    /\ out \in StartOutcomes
    /\ IF out = "ok"
       THEN /\ fc' = [fc EXCEPT !.pc = "wait", !.process = "alive",
                                !.sock = FALSE, !.net = withNet]
            /\ last' = NoCall
       ELSE /\ fc' = [fc EXCEPT !.pc = "returned", !.net = withNet,
                                !.sock = IF out \in {"nobinary", "rmfail"}
                                         THEN @ ELSE FALSE]
            /\ last' = FcCall("LaunchVM", FALSE, "StartError", NoResponse)
    /\ FcFrame

\* Firecracker binds its API socket.
SocketAppears ==
    /\ fc.process = "alive"
    /\ ~fc.sock
    /\ fc' = [fc EXCEPT !.sock = TRUE]
    /\ UNCHANGED last
    /\ FcFrame

\* waitForSocket: os.Stat finds the file, or the ten seconds pass.
LaunchVM_Wait ==
    /\ fc.pc = "wait"
    /\ IF fc.sock
       THEN /\ fc' = [fc EXCEPT !.pc = "request"]
            /\ last' = NoCall
       ELSE /\ fc' = [fc EXCEPT !.pc = "returned",
                                !.process = killProcess(@)]
            /\ last' = FcCall("LaunchVM", FALSE, "SocketTimeout", NoResponse)
    /\ FcFrame

\* One configure call, or startInstance: the request after those sent.
LaunchVM_Request(resp) ==
    LET order == LaunchOrder(fc.net)
        path == order[Len(fc.reqs) + 1]
        sent == Append(fc.reqs, [path |-> path, status |-> resp.status])
    IN  /\ fc.pc = "request"
        /\ resp.body = "none" \/ fc.process = "alive"
        /\ IF ~apiOk(resp)
           THEN /\ fc' = [fc EXCEPT !.pc = "returned", !.reqs = sent,
                                    !.process = killProcess(@)]
                /\ last' = FcCall("LaunchVM", FALSE, "APIError", resp)
           ELSE IF Len(sent) = Len(order)
           THEN /\ fc' = [fc EXCEPT !.pc = "launched", !.reqs = sent]
                /\ last' = FcCall("LaunchVM", TRUE, "none", resp)
           ELSE /\ fc' = [fc EXCEPT !.reqs = sent]
                /\ last' = NoCall
    /\ FcFrame

\* The Firecracker process ends by itself.
FcProcessExit ==
    /\ fc.process = "alive"
    /\ fc' = [fc EXCEPT !.process = "exited"]
    /\ UNCHANGED last
    /\ FcFrame

\* The goroutine of startFirecrackerProcess returns from cmd.Wait.
FcProcessReaped ==
    /\ fc.process = "exited"
    /\ fc' = [fc EXCEPT !.process = "done"]
    /\ UNCHANGED last
    /\ FcFrame

\* Client.Stop: Kill fails on a process that was waited for; the socket
\* file is removed, or a warning printed.
ClientStop(rmOk) ==
    /\ fc.pc \in {"idle", "returned", "launched"}
    /\ IF fc.process = "done"
       THEN /\ last' = FcCall("Stop", FALSE, "KillError", NoResponse)
            /\ fc' = [fc EXCEPT !.pc = "returned"]
       ELSE /\ last' = FcCall("Stop", TRUE, "none", NoResponse)
            /\ fc' = [fc EXCEPT !.pc = "returned",
                                !.process = killProcess(@),
                                !.sock = IF rmOk THEN FALSE ELSE @]
    /\ FcFrame

\* NewClient for the same socket path, once the last one is done with.
NewClient ==
    /\ fc.pc = "returned"
    /\ fc.process # "alive"
    /\ fc' = [IdleClient EXCEPT !.sock = fc.sock]
    /\ UNCHANGED last
    /\ FcFrame

NextLaunch ==
    \/ \E withNet \in BOOLEAN, out \in StartOutcomes :
           LaunchVM_Start(withNet, out)
    \/ SocketAppears
    \/ LaunchVM_Wait
    \/ \E resp \in Responses : LaunchVM_Request(resp)
    \/ FcProcessExit
    \/ FcProcessReaped
    \/ \E rmOk \in BOOLEAN : ClientStop(rmOk)
    \/ NewClient

SpecLaunch == Init /\ [][NextLaunch]_vars

C32_FailedLaunchCleansUp ==
    (/\ last.op = "LaunchVM"
     /\ last.err \in {"SocketTimeout", "APIError"}
     /\ fc.pc = "returned") =>
        /\ fc.process # "alive"
        /\ ~fc.sock
        /\ last.err = "APIError" /\ last.result.body # "none"
               => /\ last.result.status \notin 200..299
                  /\ last.result.status = fc.reqs[Len(fc.reqs)].status

\* C33: a Stop returns success and leaves no running process, whether the
\* VM was running, had stopped, or was never started.
C33_StopIsIdempotent ==
    last.op = "Stop" => last.ok /\ fc.process # "alive"

(***************************************************************************)
(* SpecBuild: the launch configuration RunVM hands to the driver and what  *)
(* buildConfig and configureBootSource make of it.  A kernel command line  *)
(* is the sequence of its words.                                           *)
(***************************************************************************)

NoDevice == [kind |-> "nil", path |-> <<>>, tag |-> <<>>]

\* console=ttyS0 reboot=k panic=1 pci=off root=/dev/vda rw
defaultBootArgs ==
    <<"console=ttyS0", "reboot=k", "panic=1", "pci=off", "root=/dev/vda",
      "rw">>

\* ip=<guest>::<gateway>:255.255.255.0::eth0:none
ipBootArg(netConfig) ==
    <<<<"ip=", netConfig.GuestIP, "::", netConfig.GuestIP,
        ":255.255.255.0::eth0:none">>>>

\* /tmp/micropod-rootfs-<vmID>
unpackedPath(vmID) == <<"/tmp/micropod-rootfs-">> \o vmID

\* The LaunchConfig of RunVM.
RunLaunchConfig(vmID, portMap) ==
    [RootfsPath |-> <<"agent-rootfs.ext4">>,
     VCPUs |-> 1,
     BootArgs |-> ipBootArg(NetConfig(vmID, portMap)),
     VirtioFS |-> [kind |-> "fs", path |-> unpackedPath(vmID),
                   tag |-> <<"container_rootfs">>],
     Vsock |-> [kind |-> "vsock", path |-> getVsockPath(vmID), tag |-> <<3>>],
     Network |-> [kind |-> "net", path |-> TapDevice(vmID),
                  tag |-> <<GuestIP(vmID)>>]]

\* The LaunchConfig of the copy-on-write RunVM.
CowLaunchConfig(vmID) ==
    [RootfsPath |-> <<"/dev/mapper/micropod-vm-">> \o vmID,
     VCPUs |-> 1,
     BootArgs |-> <<"console=ttyS0", "reboot=k", "panic=1", "pci=off">>,
     VirtioFS |-> NoDevice, Vsock |-> NoDevice, Network |-> NoDevice]

\* Launch configurations with the fields absent or present one by one.
LaunchConfigs ==
    {[RunLaunchConfig(vmID, {}) EXCEPT
          !.VCPUs = vcpus,
          !.BootArgs = IF args THEN @ ELSE <<>>,
          !.VirtioFS = IF fs THEN @ ELSE NoDevice,
          !.Vsock = IF vs THEN @ ELSE NoDevice,
          !.Network = IF nw THEN @ ELSE NoDevice] :
         vmID \in VMIDs, vcpus \in {1, 2}, args \in BOOLEAN, fs \in BOOLEAN,
         vs \in BOOLEAN, nw \in BOOLEAN}
        \cup {CowLaunchConfig(vmID) : vmID \in VMIDs}

\* buildConfig: the drive, the interface, the vsock device and the
\* machine configuration of the firecracker.Config.
buildConfig(config) ==
    [KernelArgs |-> config.BootArgs,
     Drives |-> <<[kind |-> "drive", path |-> config.RootfsPath,
                   tag |-> <<"rootfs">>]>>,
     NetworkInterfaces |-> IF config.Network # NoDevice
                           THEN <<config.Network>> ELSE <<>>,
     VsockDevices |-> IF config.Vsock # NoDevice
                      THEN <<config.Vsock>> ELSE <<>>,
     VcpuCount |-> config.VCPUs]

\* configureBootSource of the HTTP client: the BootSource it sends.
configureBootSource(bootArgs) ==
    [KernelArgs |-> IF bootArgs # <<>>
                    THEN defaultBootArgs \o bootArgs
                    ELSE defaultBootArgs,
     Drives |-> <<>>, NetworkInterfaces |-> <<>>, VsockDevices |-> <<>>,
     VcpuCount |-> 0]

BuildFrame == UNCHANGED <<ovars, wvars>>

\* LaunchVM of the SDK client up to the Config it starts the machine with.
BuildConfig(config) ==
    /\ last' = Call("buildConfig", 0, TRUE, "none", buildConfig(config),
                    config, {}, {})
    /\ BuildFrame

\* LaunchVM of the HTTP client up to its first request.
BootSource(config) ==
    /\ last' = Call("configureBootSource", 0, TRUE, "none",
                    configureBootSource(config.BootArgs), config, {}, {})
    /\ BuildFrame

NextBuild ==
    \/ \E config \in LaunchConfigs : BuildConfig(config)
    \/ \E config \in LaunchConfigs : BootSource(config)

SpecBuild == Init /\ [][NextBuild]_vars

\* The devices a firecracker.Config carries.
DevicesOf(cfg) ==
    {cfg.Drives[i] : i \in 1..Len(cfg.Drives)}
        \cup {cfg.NetworkInterfaces[i] : i \in 1..Len(cfg.NetworkInterfaces)}
        \cup {cfg.VsockDevices[i] : i \in 1..Len(cfg.VsockDevices)}

\* C34: the Config built from a LaunchConfig with a virtio-fs share has a
\* virtio-fs device with the tag and the directory of that share.
C34_VirtioFSConfigured ==
    (last.op = "buildConfig" /\ last.pre.VirtioFS # NoDevice) =>
        last.pre.VirtioFS \in DevicesOf(last.result)

\* C35: the kernel command line handed to Firecracker is the fixed prefix
\* followed by the BootArgs of the caller.
C35_BootArgsKeepPrefix ==
    last.op \in {"buildConfig", "configureBootSource"} =>
        last.result.KernelArgs = defaultBootArgs \o last.pre.BootArgs

(***************************************************************************)
(* SpecDial: Manager.connectToAgent, statement by statement, beside the    *)
(* caller that may cancel its context.                                     *)
(***************************************************************************)

maxRetries == 30

\* What one attempt meets: grpc.NewClient fails; the connection leaves
\* Idle within the timeout or not; the state GetState then reports.
DialOutcomes ==
    {"newclient", "timeout", "Connecting", "TransientFailure", "Ready"}

\* The test before the wait of the loop, without its bound.
retryAfterEvery(attempt) == attempt >= 1

\* if attempt < maxRetries: the wait between two attempts.
retryAfter(attempt) == attempt < maxRetries

DialFrame == UNCHANGED <<ovars, fc, tree, written, agent, areqs>>

\* What connectToAgent returns, with the attempts and the waits it made.
DialReturn(ok, err, attempts) ==
    Call("connectToAgent", 0, ok, err,
         [conn |-> IF ok THEN attempts ELSE 0, attempts |-> attempts,
          waits |-> dial.waits],
         <<>>, {}, {})

\* connectToAgent is called: attempt := 1.
DialStart ==
    /\ dial.pc \in {"idle", "returned"}
    /\ dial' = [IdleDial EXCEPT !.pc = "attempt", !.attempt = 1]
    /\ last' = NoCall
    /\ DialFrame

\* One pass of the loop body up to the test of attempt < maxRetries:
\* NewClient, WaitForStateChange, testConnection, Close.
DialAttempt(out) ==
    /\ dial.pc = "attempt"
    /\ dial.attempt <= maxRetries
    /\ out \in DialOutcomes
    /\ IF out = "Ready"
       THEN /\ dial' = [dial EXCEPT !.pc = "returned", !.state = out,
                                    !.open = @ \cup {dial.attempt}]
            /\ last' = DialReturn(TRUE, "none", dial.attempt)
       ELSE /\ dial' = [dial EXCEPT
                            !.state = IF out \in {"newclient", "timeout"}
                                      THEN "Idle" ELSE out,
                            !.pc = IF retryAfter(dial.attempt)
                                   THEN "select" ELSE "attempt",
                            !.attempt = IF retryAfter(dial.attempt)
                                        THEN @ ELSE @ + 1]
            /\ last' = NoCall
    /\ DialFrame

\* The select of the loop: ctx.Done() wins when the context is cancelled,
\* else the retry interval passes and the next attempt starts.
DialSelect ==
    /\ dial.pc = "select"
    /\ IF dial.cancelled
       THEN /\ dial' = [dial EXCEPT !.pc = "returned"]
            /\ last' = DialReturn(FALSE, "Cancelled", dial.attempt)
       ELSE /\ dial' = [dial EXCEPT !.pc = "attempt", !.attempt = @ + 1,
                                    !.waits = @ + 1]
            /\ last' = NoCall
    /\ DialFrame

\* The loop ends: failed to connect to agent after maxRetries attempts.
DialExhausted ==
    /\ dial.pc = "attempt"
    /\ dial.attempt > maxRetries
    /\ dial' = [dial EXCEPT !.pc = "returned", !.attempt = maxRetries]
    /\ last' = DialReturn(FALSE, "AgentUnreachable", dial.attempt - 1)
    /\ DialFrame

\* The caller cancels the context it passed.
DialCancel ==
    /\ dial.pc \in {"attempt", "select"}
    /\ ~dial.cancelled
    /\ dial' = [dial EXCEPT !.cancelled = TRUE]
    /\ UNCHANGED last
    /\ DialFrame

NextDial ==
    \/ DialStart
    \/ \E out \in DialOutcomes : DialAttempt(out)
    \/ DialSelect
    \/ DialExhausted
    \/ DialCancel

SpecDial == Init /\ [][NextDial]_vars

\* C36: connectToAgent makes maxRetries attempts at most with one wait
\* between two attempts and none after the last; it returns a connection
\* only when the state it read was Ready, the cancellation error only
\* when the context was cancelled, and the failure after exactly
\* maxRetries attempts; it leaves no connection open but the one returned.
C36_DialTerminates ==
    /\ dial.attempt <= maxRetries + 1
    /\ dial.pc = "returned" =>
           /\ last.op = "connectToAgent"
           /\ last.ok =>
                  /\ dial.state = "Ready"
                  /\ dial.open = {last.result.conn}
                  /\ last.result.waits = last.result.attempts - 1
           /\ ~last.ok => dial.open = {}
           /\ last.err = "AgentUnreachable" =>
                  /\ last.result.attempts = maxRetries
                  /\ last.result.waits = maxRetries - 1
           /\ last.err = "Cancelled" =>
                  /\ dial.cancelled
                  /\ last.result.attempts < maxRetries
                  /\ last.result.waits = last.result.attempts - 1
    /\ dial.pc \in {"attempt", "select"} => dial.open = {}

\* The loop has run out of attempts.
C36_Witness ==
    /\ dial.pc = "returned"
    /\ last.err = "AgentUnreachable"
    /\ last.result.attempts = maxRetries

(***************************************************************************)
(* SpecNetFaults: Setup and Teardown of pkg/network when a command of      *)
(* Setup fails.                                                            *)
(***************************************************************************)

\* The command of Setup that fails: ip tuntap add, ip addr add, ip link
\* set up, sysctl, iptables -A POSTROUTING, iptables -A PREROUTING.
SetupFaults == {"tuntap", "addr", "up", "sysctl", "masq", "dnat"}

\* Setup with one failing command: createTapDevice returns at the command
\* that fails and Setup returns; a failure inside setupIptables is followed
\* by cleanupTapDevice alone.
SetupFails(vmID, portMappings, fault) ==
    LET parsed == parsePortMappings(portMappings)
        config == NetConfig(vmID, parsed.result)
        route == getDefaultInterface(defiface)
    IN  /\ parsed.ok
        /\ config.TapDevice \notin links
        /\ route.ok
        /\ fault \in SetupFaults
        /\ fault = "dnat" => config.PortMappings # {}
        /\ Len(nat) + 2 <= MaxRules
        /\ links' = IF fault \in {"addr", "up"}
                    THEN links \cup {config.TapDevice} ELSE links
        /\ nat' = IF fault = "dnat"
                  THEN nat \o <<natRule(config, route.iface)>> ELSE nat
        /\ last' = NetCall("Setup", vmID, FALSE,
                           IF fault \in {"tuntap", "addr", "up"}
                           THEN "TapError" ELSE "IptablesError",
                           <<>>, portMappings)
        /\ UNCHANGED defiface
        /\ NetFrame

NextNetFaults ==
    \/ \E vmID \in NetIDs, ports \in PortArgs : Setup(vmID, ports)
    \/ \E vmID \in NetIDs, ports \in PortArgs, fault \in SetupFaults :
           SetupFails(vmID, ports, fault)
    \/ \E vmID \in NetIDs, ports \in PortArgs : Teardown(vmID, ports)

SpecNetFaults == Init /\ [][NextNetFaults]_vars

\* C37: a Setup that returns an error leaves the tap devices and the nat
\* rules of the host as they were before the call.
C37_FailedSetupLeavesNothing ==
    (last.op = "Setup" /\ ~last.ok) =>
        links = last.pre.links /\ nat = last.pre.nat

(***************************************************************************)
(* SpecExtract: extractLayer of pkg/image on a file system with symbolic   *)
(* links.  A path is the sequence of its components from the root; tree    *)
(* holds one node for every object, by the path no link is part of.        *)
(***************************************************************************)

destPath == <<"dest">>

\* header.Name, by its components: a plain name, a name below another, a
\* name that climbs out with "..", one that climbs and comes back, and a
\* whiteout marker.
TarNames == {<<"l">>, <<"l", "p">>, <<"..", "etc", "p">>, <<"..", "dest", "p">>,
             <<".wh.p">>}

\* header.Linkname: a directory outside destPath, and destPath.
Linknames == {<<"etc">>, <<"dest">>}

TarEntries ==
    {[name |-> n, type |-> t, linkname |-> <<>>] :
        n \in TarNames, t \in {"TypeDir", "TypeReg", "TypeOther"}}
    \cup {[name |-> n, type |-> "TypeSymlink", linkname |-> l] :
            n \in TarNames, l \in Linknames}

KindAt(t, p) ==
    IF \E n \in t : n.path = p
    THEN (CHOOSE n \in t : n.path = p).kind ELSE "none"

LinkAt(t, p) == (CHOOSE n \in t : n.path = p).link

\* filepath.Clean of a rooted path: a ".." removes the component before it
\* and is dropped at the root.
RECURSIVE CleanFrom(_, _)
CleanFrom(done, rest) ==
    IF rest = <<>> THEN done
    ELSE IF Head(rest) = ".."
         THEN CleanFrom(IF done = <<>> THEN <<>>
                        ELSE SubSeq(done, 1, Len(done) - 1), Tail(rest))
         ELSE CleanFrom(Append(done, Head(rest)), Tail(rest))

\* filepath.Join(destPath, header.Name): the joined path, cleaned.
JoinPath(dir, name) == CleanFrom(<<>>, dir \o name)

\* strings.HasPrefix(target, filepath.Clean(destPath) + "/"): a comparison
\* of the two strings, which never looks at the file system.
HasDestPrefix(target) ==
    /\ Len(target) > Len(destPath)
    /\ SubSeq(target, 1, Len(destPath)) = destPath

\* filepath.Dir
DirOf(p) == SubSeq(p, 1, Len(p) - 1)

\* The walk of the kernel along a path: a component that is a symbolic
\* link is replaced by what it points to, a regular file before the end is
\* ENOTDIR, a missing component is kept as it is named.
RECURSIVE Resolve(_, _, _)
Resolve(t, cur, rest) ==
    IF rest = <<>> THEN [ok |-> TRUE, path |-> cur]
    ELSE LET nxt == Append(cur, Head(rest))
             k == KindAt(t, nxt)
         IN  IF k = "symlink"
             THEN Resolve(t, LinkAt(t, nxt), Tail(rest))
             ELSE IF k = "reg" /\ Tail(rest) # <<>>
                  THEN [ok |-> FALSE, path |-> nxt]
                  ELSE Resolve(t, nxt, Tail(rest))

MissingDirs(t, p) ==
    {SubSeq(p, 1, n) : n \in {m \in 1..Len(p) :
                                 KindAt(t, SubSeq(p, 1, m)) = "none"}}

\* os.MkdirAll(p): nil when p is a directory, an error when a regular file
\* is on the way, and otherwise every missing directory is made.
MkdirAll(t, p) ==
    LET r == Resolve(t, <<>>, p)
    IN  IF ~r.ok \/ KindAt(t, r.path) = "reg"
        THEN [ok |-> FALSE, tree |-> t, made |-> {}]
        ELSE [ok |-> TRUE,
              tree |-> t \cup {[path |-> d, kind |-> "dir", link |-> <<>>] :
                                  d \in MissingDirs(t, r.path)},
              made |-> MissingDirs(t, r.path)]

\* os.OpenFile(p, O_CREATE|O_WRONLY|O_TRUNC) and io.Copy: the file the path
\* leads to, through links, is made or emptied and then written.
OpenFile(t, p) ==
    LET r == Resolve(t, <<>>, p)
    IN  IF ~r.ok \/ KindAt(t, r.path) = "dir"
        THEN [ok |-> FALSE, tree |-> t, made |-> {}]
        ELSE [ok |-> TRUE,
              tree |-> {n \in t : n.path # r.path}
                       \cup {[path |-> r.path, kind |-> "reg", link |-> <<>>]},
              made |-> {r.path}]

\* os.Symlink(linkname, p): the last component of p is not followed, and
\* anything already there is EEXIST.
Symlink(t, linkname, p) ==
    LET r == Resolve(t, <<>>, DirOf(p))
        at == Append(r.path, p[Len(p)])
    IN  IF ~r.ok \/ KindAt(t, at) # "none"
        THEN [ok |-> FALSE, tree |-> t, made |-> {}]
        ELSE [ok |-> TRUE,
              tree |-> t \cup {[path |-> at, kind |-> "symlink",
                                link |-> linkname]},
              made |-> {at}]

\* Two file system calls in a row; the second is given the tree the first
\* left, and is not made when the first failed.
ThenOpen(first, p) ==
    IF ~first.ok THEN first
    ELSE LET second == OpenFile(first.tree, p)
         IN  [second EXCEPT !.made = first.made \cup second.made]

ThenSymlink(first, linkname, p) ==
    IF ~first.ok THEN first
    ELSE LET second == Symlink(first.tree, linkname, p)
         IN  [ok |-> second.ok, tree |-> second.tree,
              made |-> first.made \cup second.made]

\* The switch on header.Typeflag; any other type does nothing.
switchTypeflag(t, header, target) ==
    CASE header.type = "TypeDir" -> MkdirAll(t, target)
      [] header.type = "TypeReg" ->
            ThenOpen(MkdirAll(t, DirOf(target)), target)
      [] header.type = "TypeSymlink" ->
            ThenSymlink(MkdirAll(t, DirOf(target)), header.linkname, target)
      [] OTHER -> [ok |-> TRUE, tree |-> t, made |-> {}]

ExtractFrame == UNCHANGED <<ovars, fc, dial, agent, areqs>>

\* One round of the loop of extractLayer, for the entry tr.Next() returned.
ExtractEntry(header) ==
    LET target == JoinPath(destPath, header.name)
        skipped == (\E i \in 1..Len(header.name) :
                        header.name[i] = ".wh.p")
                   \/ ~HasDestPrefix(target)
        done == switchTypeflag(tree, header, target)
    IN  /\ tree' = IF skipped THEN tree ELSE done.tree
        /\ written' = IF skipped THEN written ELSE written \cup done.made
        /\ last' = Call("extractLayer", 0, skipped \/ done.ok,
                        IF skipped \/ done.ok THEN "none" ELSE "ExtractError",
                        [skipped |-> skipped, target |-> target],
                        <<>>, {}, {})
        /\ ExtractFrame

NextExtract == \E header \in TarEntries : ExtractEntry(header)

SpecExtract == Init /\ [][NextExtract]_vars

\* C38: whatever the entries of the layers are, every file system object
\* extractLayer makes, empties or writes is below destPath, and an entry
\* whose target is not below destPath is skipped.
C38_WritesStayUnderDest ==
    /\ \A p \in written : HasDestPrefix(p)
    /\ (last.op = "extractLayer" /\ ~HasDestPrefix(last.result.target))
           => last.result.skipped

(***************************************************************************)
(* SpecPublish: RunVM of pkg/manager with its publish list, which          *)
(* network.Setup parses before any of its commands.                        *)
(***************************************************************************)

\* network.Setup that makes the tap device first and parses afterwards.
setupKeepsTapUnparsed(parsedOk, out) == ~parsedOk \/ out \in {"addr", "ok"}

\* Whether the tap device is on the host when network.Setup returns:
\* createTapDevice is not reached when parsePortMappings failed.
setupKeepsTap(parsedOk, out) == parsedOk /\ out \in {"addr", "ok"}

\* Whether nat rules are on the host when network.Setup returns.
setupKeepsRules(parsedOk, out) == parsedOk /\ out \in {"dnat", "ok"}

HostState ==
    [taps |-> taps, rules |-> rules, dirs |-> dirs, procs |-> procs,
     registry |-> registry]

\* uuid.New(), then network.Setup(vmID, portMappings) with the list it is
\* given: lines 75-84 of RunVM and 20-54 of Setup.
RunVM_Publish(image, portMappings, out) ==
    LET parsed == parsePortMappings(portMappings)
        id == nextId + 1
    IN  /\ run.pc \in {"idle", "returned", "fatal"}
        /\ nextId < MaxVMs
        /\ out = "parse" <=> ~parsed.ok
        /\ out = "dnat" => parsed.result # {}
        /\ nextId' = id
        /\ taps' = IF setupKeepsTap(parsed.ok, out)
                   THEN taps \cup {id} ELSE taps
        /\ rules' = IF setupKeepsRules(parsed.ok, out)
                    THEN rules \cup {id} ELSE rules
        /\ hist' = [i \in IDs |->
                      IF i = id THEN (IF out = "ok" THEN {"Setup"} ELSE {})
                      ELSE IF i \in Ids(registry) THEN hist[i] ELSE {}]
        /\ run' = IF out = "ok"
                  THEN [IdleRun EXCEPT !.pc = "Pull", !.id = id,
                                       !.image = image]
                  ELSE [IdleRun EXCEPT !.pc = "returned", !.id = id,
                                       !.image = image,
                                       !.err = "NetworkError"]
        /\ last' = IF out = "ok" THEN NoCall
                   ELSE Call("RunVM", id, FALSE, "NetworkError", <<>>,
                             [ports |-> portMappings, host |-> HostState],
                             {}, {})
        /\ UNCHANGED <<registry, procs, dirs, socks, vsocks, snaps, images,
                       committed, stopped, faults, xvars>>

NextPublish ==
    \/ \E image \in Refs, ports \in PortArgs, out \in SetupOutcomes :
           RunVM_Publish(image, ports, out)
    \/ \E ok \in BOOLEAN : RunVM_Pull(ok)
    \/ \E out \in {"getimage", "extract", "ok"} : RunVM_Unpack(out)
    \/ \E out \in LaunchOutcomes : RunVM_Launch(out)
    \/ \E ok \in BOOLEAN : RunVM_Connect(ok)
    \/ \E out \in {"rpcerr", "FAILED", "RUNNING"} : RunVM_Create(out)
    \/ \E ok \in BOOLEAN : RunVM_Commit(ok)
    \/ \E out \in NetOutcomes \cup {"fail"} : RunVM_Rollback(out)
    \/ \E pid \in procs : ProcessExit(pid)

SpecPublish == Init /\ [][NextPublish]_vars

MalformedPublish(portMappings) ==
    \E i \in 1..Len(portMappings) : ~IsHostGuest(portMappings[i])

\* C39: when a mapping of the publish list is not host:guest, RunVM returns
\* an error and the tap devices, the nat rules, the rootfs directories, the
\* Firecracker processes and the registry are what they were before.
C39_MalformedPublishTouchesNothing ==
    (last.op = "RunVM" /\ MalformedPublish(last.pre.ports)) =>
        /\ run.pc = "returned" /\ run.err = "NetworkError"
        /\ HostState = last.pre.host

\* RunVM was given a malformed list while another machine was running.
C39_Witness ==
    /\ last.op = "RunVM"
    /\ MalformedPublish(last.pre.ports)
    /\ Len(registry) > 0
    /\ taps # {}

(***************************************************************************)
(* SpecAgent: CreateContainer of cmd/agent, every request a goroutine of   *)
(* the gRPC server.  agent.containers is s.containers, agent.runc the ids  *)
(* runc holds a state directory for, agent.bundles the directories under   *)
(* /containers.                                                            *)
(***************************************************************************)

ContainerIds == {"", "c1", "c2"}

Respond(p, status) ==
    [areqs EXCEPT ![p] = [@ EXCEPT !.pc = "returned", !.status = status]]

Goto(p, pc) == [areqs EXCEPT ![p] = [@ EXCEPT !.pc = pc]]

AgentFrame == UNCHANGED <<ovars, last, fc, dial, tree, written>>

\* The request comes in and is validated: lines 39-59.
CreateContainer_Validate(p, id, hasArgs) ==
    /\ areqs[p].pc \in {"idle", "returned"}
    /\ areqs' = [areqs EXCEPT ![p] =
                    IF id = "" \/ ~hasArgs
                    THEN [pc |-> "returned", id |-> id, seen |-> FALSE,
                          status |-> "FAILED"]
                    ELSE [pc |-> "check", id |-> id, seen |-> FALSE,
                          status |-> "none"]]
    /\ UNCHANGED agent
    /\ AgentFrame

\* s.mu.Lock(), the look into s.containers, s.mu.Unlock(): lines 62-71.
CreateContainer_Check(p) ==
    /\ areqs[p].pc = "check"
    /\ areqs' = IF areqs[p].id \in agent.containers
                THEN Respond(p, "FAILED") ELSE Goto(p, "bundle")
    /\ UNCHANGED agent
    /\ AgentFrame

\* os.MkdirAll(bundlePath), createOciSpec and os.Stat(req.RootfsPath):
\* lines 73-104.  A failure after MkdirAll leaves the directory.
CreateContainer_Bundle(p, out) ==
    /\ areqs[p].pc = "bundle"
    /\ out \in {"mkdir", "spec", "stat", "ok"}
    /\ agent' = IF out = "mkdir" THEN agent
                ELSE [agent EXCEPT !.bundles = @ \cup {areqs[p].id}]
    /\ areqs' = IF out = "ok" THEN Goto(p, "exec") ELSE Respond(p, "FAILED")
    /\ AgentFrame

\* exec.Command("runc", "run", "--detach", id) is started and runc looks
\* for a state directory of the id: line 108-112.
CreateContainer_RuncStart(p) ==
    /\ areqs[p].pc = "exec"
    /\ areqs' = [areqs EXCEPT ![p] =
                    [@ EXCEPT !.pc = "runc",
                              !.seen = areqs[p].id \in agent.runc]]
    /\ UNCHANGED agent
    /\ AgentFrame

\* runc returns: lines 112-125.  It fails when it found the id taken and
\* may fail for any other reason; the bundle directory is then removed.
CreateContainer_RuncExit(p, ok) ==
    /\ areqs[p].pc = "runc"
    /\ areqs[p].seen => ~ok
    /\ agent' = IF ok
                THEN [agent EXCEPT !.runc = @ \cup {areqs[p].id}]
                ELSE [agent EXCEPT !.bundles = @ \ {areqs[p].id}]
    /\ areqs' = IF ok THEN Goto(p, "store") ELSE Respond(p, "FAILED")
    /\ AgentFrame

\* getContainerPID, then s.mu.Lock(), the entry, s.mu.Unlock() and the
\* response: lines 131-150.
CreateContainer_Store(p) ==
    /\ areqs[p].pc = "store"
    /\ agent' = [agent EXCEPT !.containers = @ \cup {areqs[p].id}]
    /\ areqs' = Respond(p, "RUNNING")
    /\ AgentFrame

NextAgent ==
    \/ \E p \in Procs, id \in ContainerIds, hasArgs \in BOOLEAN :
           CreateContainer_Validate(p, id, hasArgs)
    \/ \E p \in Procs : CreateContainer_Check(p)
    \/ \E p \in Procs, out \in {"mkdir", "spec", "stat", "ok"} :
           CreateContainer_Bundle(p, out)
    \/ \E p \in Procs : CreateContainer_RuncStart(p)
    \/ \E p \in Procs, ok \in BOOLEAN : CreateContainer_RuncExit(p, ok)
    \/ \E p \in Procs : CreateContainer_Store(p)

SpecAgent == Init /\ [][NextAgent]_vars

\* C40: of the requests that carry one container id at most one is answered
\* RUNNING, every answer is RUNNING or FAILED, and the table of the agent
\* holds only ids of containers that were started.
C40_OneRunningPerId ==
    /\ \A p, q \in Procs :
           (/\ p # q
            /\ areqs[p].status = "RUNNING"
            /\ areqs[q].status = "RUNNING") => areqs[p].id # areqs[q].id
    /\ \A p \in Procs :
           areqs[p].pc = "returned" => areqs[p].status \in {"RUNNING", "FAILED"}
    /\ agent.containers \subseteq agent.runc

====
